---- MODULE Spec2Model ----
(***************************************************************************)
(* CaptureCardGaming: the capture session (platform/mod.rs), the capture   *)
(* worker loop (platform/linux.rs), the application's session handling and *)
(* frame polling (app.rs, main.rs) and the V4L2 format negotiation         *)
(* (platform/linux.rs).                                                    *)
(*                                                                         *)
(* Spec      the application thread, the capture threads and the device    *)
(* FairSpec  Spec with weak fairness of the capture threads' own steps     *)
(* SelSpec   select_format over bounded candidate lists                    *)
(***************************************************************************)
EXTENDS Integers, Sequences, FiniteSets, TLC

\* ------------------------------------------------------------------ bounds
MaxSessions == 2    \* sessions started in one run
MaxBuf == 3         \* buffers the device delivers in one run

\* ------------------------------------------------------- program constants
ChannelCap == 1     \* bounded(1)

Sessions == 1..MaxSessions
Devices == {1, 2}   \* indexes into video_devices; 0 is None

\* A frame in the channel is identified by the number, within its session, of
\* the buffer it was built from.  A buffer carries whether a frame can be built
\* from it: always for the raw layouts (YUYV, NV12), depending on the data for
\* MJPEG (decode_mjpeg) and for a GStreamer sample (caps, buffer, format).
NoFrame == [seq |-> 0]
NoBuf == [seq |-> 0, ok |-> TRUE]

VARIABLES
    \* App (app.rs)
    video_capture,   \* Option<VideoCapture>: 0 = None, else the session
    selected_video,  \* Option<usize>: 0 = None
    last_error,      \* "none" or the kind of message held
    show_stats,
    mpc,             \* position of the application thread
    mloc,            \* its locals: sel, cap, ret, latest
    \* VideoCapture / start_video_capture (platform/mod.rs), per session
    nsess,           \* sessions created so far
    rx,              \* the bounded(1) channel
    stop,            \* stop: Arc<AtomicBool>
    thread,          \* thread: Option<JoinHandle>: "none" | "some"
    stats,           \* CaptureStats
    \* the capture thread of each session (platform/linux.rs)
    wpc,             \* "unborn", loop positions, "exited"
    wloc,            \* its locals: stats_on, buf, frame
    \* the device
    nbuf,            \* buffers delivered so far
    \* history (not program state)
    hist,
    \* select_format (SelSpec, DetSpec)
    sel,
    \* the decode path of an MJPG session (MjSpec)
    mj,
    \* RenderState (render.rs)
    rs,
    \* App: video_devices and last_refresh (RefreshSpec)
    devs,
    \* the frames a capture thread builds (FrameSpec)
    fr

vars == <<video_capture, selected_video, last_error, show_stats, mpc, mloc,
          nsess, rx, stop, thread, stats, wpc, wloc, nbuf, hist, sel, mj, rs, devs, fr>>

appVars == <<video_capture, selected_video, last_error, show_stats, mpc, mloc>>
sessVars == <<nsess, rx, stop, thread, stats>>
workerVars == <<wpc, wloc>>

\* ------------------------------------------------------------ CaptureStats
CaptureStats_new == [enabled |-> FALSE, frames |-> 0, drops |-> 0, decode_us |-> 0]

CaptureStats_reset(st) == [st EXCEPT !.frames = 0, !.drops = 0, !.decode_us = 0]

\* decode_us: the latency sample is abstracted to 1 (a sample was stored).
CaptureStats_on_frame_enabled(st) == [st EXCEPT !.frames = @ + 1, !.decode_us = 1]

CaptureStats_on_drop_enabled(st) == [st EXCEPT !.drops = @ + 1]

\* ------------------------------------------------------------ the channel
\* crossbeam bounded(1): try_send fails when full, try_recv fails when empty.
ChanFull(q) == Len(q) >= ChannelCap
ChanIsEmpty(q) == Len(q) = 0

\* --------------------------------------------------------------- history
\* The redraw tick that just ended: the frames take_latest_frame received,
\* the value it returned and the number of frames given to the renderer.
\* `fresh`: the call began with the thread between iterations, after n >= 1
\* buffers, all buildable, and no earlier poll of the session.
NoTake ==
    [ sess |-> 0, fresh |-> FALSE, n |-> 0, got |-> << >>, result |-> NoFrame,
      uploads |-> 0, done |-> FALSE ]

HistInit ==
    [ ncap     |-> [s \in Sessions |-> 0],       \* buffers the thread has read
      allok    |-> [s \in Sessions |-> TRUE],    \* a frame could be built from each of them
      returned |-> [s \in Sessions |-> 0],       \* frames take_latest_frame returned
      stopped  |-> [s \in Sessions |-> FALSE],   \* a joining stop() has returned
      clean    |-> [s \in Sessions |-> TRUE],    \* every iteration ran with stats on, no reset erased a count
      polled   |-> [s \in Sessions |-> FALSE],   \* take_latest_frame was called on the session
      settled  |-> [s \in Sessions |-> FALSE],   \* a poll returned with the thread between iterations, no buffer read since
      lastgot  |-> [s \in Sessions |-> 0],       \* the buffer of the last frame the consumer received
      nsent    |-> [s \in Sessions |-> 0],       \* frames put into the channel since the last reset
      ndisc    |-> [s \in Sessions |-> 0],       \* buffers and frames discarded since the last reset
      failed   |-> FALSE,                        \* the last start_video_capture returned Err
      tk       |-> NoTake ]

\* ------------------------------------------------------ the capture thread
MakeFrame(buf) == [seq |-> buf.seq]

\* The bindings of one loop iteration; they go out of scope at `continue`.
\* `pre` is history kept with them: stats were switched on while the
\* iteration, having read the flag as true earlier, already held its buffer.
WLocInit == [stats_on |-> FALSE, buf |-> NoBuf, frame |-> NoFrame, pre |-> FALSE]

\* the positions at which the thread holds a buffer it has read
Holding == {"is_empty", "drop_early", "build", "on_frame", "send", "drain", "drop_late",
            "resend"}

\* The thread moves to position p; back at the loop head its locals are gone.
Goto(s, p) ==
    /\ wpc' = [wpc EXCEPT ![s] = p]
    /\ wloc' = IF p \in {"head", "exited"} THEN [wloc EXCEPT ![s] = WLocInit] ELSE wloc

\* MmapStream::with_buffers(.., 1), then (.., 2); both failing ends the thread.
\* (The GStreamer thread has no such step: it behaves as a thread whose
\* stream was set up.)
WorkerInit(s) ==
    /\ wpc[s] = "init"
    /\ \E ok \in BOOLEAN : Goto(s, IF ok THEN "head" ELSE "exited")
    /\ UNCHANGED <<appVars, sessVars, nbuf, hist, sel, mj, rs, devs, fr>>

\* while !stop.load(Relaxed) { let stats_on = stats.enabled(); ...
WorkerLoopHead(s) ==
    /\ wpc[s] = "head"
    /\ IF stop[s]
         THEN Goto(s, "exited")
         ELSE /\ wpc' = [wpc EXCEPT ![s] = "read"]
              /\ wloc' = [wloc EXCEPT ![s].stats_on = stats[s].enabled]
    /\ hist' = [hist EXCEPT !.clean[s] = @ /\ (stop[s] \/ stats[s].enabled)]
    /\ UNCHANGED <<appVars, sessVars, nbuf, sel, mj, rs, devs, fr>>

\* stream.next() / appsink.pull_sample(): no timeout is configured, so the
\* call returns when the device delivers a buffer or reports an error.
WorkerReadOk(s) ==
    /\ wpc[s] = "read"
    /\ nbuf < MaxBuf
    /\ \E ok \in BOOLEAN :
         /\ wloc' = [wloc EXCEPT ![s].buf = [seq |-> hist.ncap[s] + 1, ok |-> ok]]
         /\ hist' = [hist EXCEPT !.ncap[s] = @ + 1, !.allok[s] = @ /\ ok,
                                 !.settled[s] = FALSE]
    /\ nbuf' = nbuf + 1
    /\ wpc' = [wpc EXCEPT ![s] = "is_empty"]
    /\ UNCHANGED <<appVars, sessVars, sel, mj, rs, devs, fr>>

\* Err(_) => continue
WorkerReadErr(s) ==
    /\ wpc[s] = "read"
    /\ Goto(s, "head")
    /\ UNCHANGED <<appVars, sessVars, nbuf, hist, sel, mj, rs, devs, fr>>

\* Mutant: the thread waits for the consumer to drain the slot.
WorkerIsEmptyBlocking(s) ==
    /\ wpc[s] = "is_empty"
    /\ ChanIsEmpty(rx[s])
    /\ Goto(s, "build")
    /\ UNCHANGED <<appVars, sessVars, nbuf, hist, sel, mj, rs, devs, fr>>

\* Mutant: the slot is not looked at before the frame is built.
WorkerIsEmptyUnchecked(s) ==
    /\ wpc[s] = "is_empty"
    /\ Goto(s, "build")
    /\ UNCHANGED <<appVars, sessVars, nbuf, hist, sel, mj, rs, devs, fr>>

\* if !drop_rx.is_empty() { if stats_on { on_drop } continue; }
WorkerIsEmpty(s) ==
    /\ wpc[s] = "is_empty"
    /\ Goto(s, IF ~ChanIsEmpty(rx[s])
                 THEN (IF wloc[s].stats_on THEN "drop_early" ELSE "head")
                 ELSE "build")
    /\ hist' = [hist EXCEPT !.ndisc[s] = @ + (IF ~ChanIsEmpty(rx[s]) THEN 1 ELSE 0)]
    /\ UNCHANGED <<appVars, sessVars, nbuf, sel, mj, rs, devs, fr>>

\* Mutant: the buffer discarded for an occupied slot is not counted.
WorkerDropEarlyUncounted(s) ==
    /\ wpc[s] = "drop_early"
    /\ Goto(s, "head")
    /\ UNCHANGED <<appVars, sessVars, nbuf, hist, sel, mj, rs, devs, fr>>

WorkerDropEarly(s) ==
    /\ wpc[s] = "drop_early"
    /\ stats' = [stats EXCEPT ![s] = CaptureStats_on_drop_enabled(@)]
    /\ Goto(s, "head")
    /\ UNCHANGED <<appVars, nsess, rx, stop, thread, nbuf, hist, sel, mj, rs, devs, fr>>

\* Mutant: the frame is counted before it is decoded.
WorkerBuildCountFirst(s) ==
    /\ wpc[s] = "build"
    /\ stats' = [stats EXCEPT ![s] =
                   IF wloc[s].stats_on THEN CaptureStats_on_frame_enabled(@) ELSE @]
    /\ IF wloc[s].buf.ok
         THEN /\ wloc' = [wloc EXCEPT ![s].frame = MakeFrame(wloc[s].buf)]
              /\ wpc' = [wpc EXCEPT ![s] = "send"]
         ELSE Goto(s, "head")
    /\ UNCHANGED <<appVars, nsess, rx, stop, thread, nbuf, hist, sel, mj, rs, devs, fr>>

\* Mutant: the frame is counted whatever the flag read at the loop head.
WorkerBuildUngated(s) ==
    /\ wpc[s] = "build"
    /\ IF wloc[s].buf.ok
         THEN /\ wloc' = [wloc EXCEPT ![s].frame = MakeFrame(wloc[s].buf)]
              /\ wpc' = [wpc EXCEPT ![s] = "on_frame"]
         ELSE Goto(s, "head")
    /\ UNCHANGED <<appVars, sessVars, nbuf, hist, sel, mj, rs, devs, fr>>

\* the frame is built (decode_mjpeg for MJPG); a failure skips the buffer
WorkerBuild(s) ==
    /\ wpc[s] = "build"
    /\ IF wloc[s].buf.ok
         THEN /\ wloc' = [wloc EXCEPT ![s].frame = MakeFrame(wloc[s].buf)]
              /\ wpc' = [wpc EXCEPT ![s] = IF wloc[s].stats_on THEN "on_frame" ELSE "send"]
         ELSE Goto(s, "head")
    /\ UNCHANGED <<appVars, sessVars, nbuf, hist, sel, mj, rs, devs, fr>>

\* if let Some(t0) = t0 { stats.on_frame_enabled(..) }
WorkerOnFrame(s) ==
    /\ wpc[s] = "on_frame"
    /\ stats' = [stats EXCEPT ![s] = CaptureStats_on_frame_enabled(@)]
    /\ Goto(s, "send")
    /\ UNCHANGED <<appVars, nsess, rx, stop, thread, nbuf, hist, sel, mj, rs, devs, fr>>

\* Mutant: the frame is sent again after a send that succeeded.
WorkerSendAgain(s) ==
    /\ wpc[s] \in {"send", "drain", "drop_late", "resend"}
    /\ CASE wpc[s] = "send" ->
              IF ~ChanFull(rx[s])
                THEN /\ rx' = [rx EXCEPT ![s] = Append(@, wloc[s].frame)]
                     /\ Goto(s, "resend")
                     /\ stats' = stats
                     /\ hist' = [hist EXCEPT !.nsent[s] = @ + 1]
                ELSE /\ Goto(s, "drain")
                     /\ UNCHANGED <<rx, stats, hist>>
         [] wpc[s] = "drain" ->
              /\ rx' = [rx EXCEPT ![s] = IF ChanIsEmpty(@) THEN @ ELSE Tail(@)]
              /\ Goto(s, IF wloc[s].stats_on THEN "drop_late" ELSE "resend")
              /\ stats' = stats
              /\ hist' = [hist EXCEPT !.ndisc[s] = @ + (IF ChanIsEmpty(rx[s]) THEN 0 ELSE 1)]
         [] wpc[s] = "drop_late" ->
              /\ stats' = [stats EXCEPT ![s] = CaptureStats_on_drop_enabled(@)]
              /\ Goto(s, "resend")
              /\ UNCHANGED <<rx, hist>>
         [] OTHER ->
              /\ rx' = [rx EXCEPT ![s] = IF ChanFull(@) THEN @ ELSE Append(@, wloc[s].frame)]
              /\ Goto(s, "head")
              /\ stats' = stats
              /\ hist' = IF ChanFull(rx[s]) THEN [hist EXCEPT !.ndisc[s] = @ + 1]
                                            ELSE [hist EXCEPT !.nsent[s] = @ + 1]
    /\ UNCHANGED <<appVars, nsess, stop, thread, nbuf, sel, mj, rs, devs, fr>>

\* if let Err(err) = tx.try_send(frame) { drop_rx.try_recv(); if stats_on
\* { on_drop } tx.try_send(frame) }: four channel/counter operations, each
\* one step.
WorkerSend(s) ==
    /\ wpc[s] \in {"send", "drain", "drop_late", "resend"}
    /\ CASE wpc[s] = "send" ->
              IF ~ChanFull(rx[s])
                THEN /\ rx' = [rx EXCEPT ![s] = Append(@, wloc[s].frame)]
                     /\ Goto(s, "head")
                     /\ stats' = stats
                     /\ hist' = [hist EXCEPT !.nsent[s] = @ + 1]
                ELSE /\ Goto(s, "drain")
                     /\ UNCHANGED <<rx, stats, hist>>
         [] wpc[s] = "drain" ->
              /\ rx' = [rx EXCEPT ![s] = IF ChanIsEmpty(@) THEN @ ELSE Tail(@)]
              /\ Goto(s, IF wloc[s].stats_on THEN "drop_late" ELSE "resend")
              /\ stats' = stats
              /\ hist' = [hist EXCEPT !.ndisc[s] = @ + (IF ChanIsEmpty(rx[s]) THEN 0 ELSE 1)]
         [] wpc[s] = "drop_late" ->
              /\ stats' = [stats EXCEPT ![s] = CaptureStats_on_drop_enabled(@)]
              /\ Goto(s, "resend")
              /\ UNCHANGED <<rx, hist>>
         [] OTHER ->
              /\ rx' = [rx EXCEPT ![s] = IF ChanFull(@) THEN @ ELSE Append(@, wloc[s].frame)]
              /\ Goto(s, "head")
              /\ stats' = stats
              /\ hist' = IF ChanFull(rx[s]) THEN [hist EXCEPT !.ndisc[s] = @ + 1]
                                            ELSE [hist EXCEPT !.nsent[s] = @ + 1]
    /\ UNCHANGED <<appVars, nsess, stop, thread, nbuf, sel, mj, rs, devs, fr>>

\* The steps the thread takes by itself (everything but the device read).
WorkerInternal(s) ==
    \/ WorkerInit(s)
    \/ WorkerLoopHead(s)
    \/ WorkerIsEmpty(s)
    \/ WorkerDropEarly(s)
    \/ WorkerBuild(s)
    \/ WorkerOnFrame(s)
    \/ WorkerSend(s)

Worker(s) == WorkerInternal(s) \/ WorkerReadOk(s) \/ WorkerReadErr(s)

\* ---------------------------------------------------- the application thread
Boundary(s) == wpc[s] \in {"head", "read", "exited"}

MLocInit == [sel |-> 0, cap |-> 0, ret |-> "none", latest |-> NoFrame]

\* video_devices is the list of device ids of the last successful
\* enumeration; App::new found the two devices of Devices.  last_refresh is
\* the parity of the refreshes made so far (the instant of the last one);
\* result is history, the outcome of the last list_video_devices call.
DeviceLists == {<< >>, <<"a">>, <<"b">>, <<"a", "b">>}
DevsInit == [video_devices |-> <<"a", "b">>, last_refresh |-> 0, result |-> "ok"]

\* set_video: if let Some(mut cap) = self.video_capture.take() { cap.stop(); }
SetVideo(v) ==
    /\ mpc = "idle"
    /\ v # selected_video
    /\ mloc' = [mloc EXCEPT !.sel = v, !.cap = video_capture, !.ret = "set_video"]
    /\ video_capture' = 0
    /\ mpc' = IF video_capture # 0 THEN "sv_stop" ELSE "sv_select"
    /\ hist' = [hist EXCEPT !.tk = NoTake, !.failed = FALSE]
    /\ UNCHANGED <<selected_video, last_error, show_stats, sessVars, workerVars,
                   nbuf, sel, mj, rs, devs, fr>>

\* The fields of a dropped VideoCapture are freed (the thread's clones of the
\* channel and of the Arcs went with the thread); the history of the session
\* goes with them, but for `stopped`.
Dropped(c, h) ==
    /\ rx' = [rx EXCEPT ![c] = << >>]
    /\ stats' = [stats EXCEPT ![c] = CaptureStats_new]
    /\ hist' = [h EXCEPT !.ncap[c] = 0, !.allok[c] = TRUE, !.returned[c] = 0,
                         !.clean[c] = TRUE, !.polled[c] = FALSE, !.settled[c] = FALSE,
                         !.lastgot[c] = 0, !.nsent[c] = 0, !.ndisc[c] = 0]

\* Mutant: stop sets the flag and returns without joining.
VideoCapture_stopNoJoin ==
    /\ mpc \in {"sv_stop", "sv_drop"}
    /\ LET c == mloc.cap IN
       IF thread[c] = "some"
         THEN /\ thread' = [thread EXCEPT ![c] = "none"]
              /\ stop' = [stop EXCEPT ![c] = TRUE]
              /\ mpc' = IF mpc = "sv_stop" THEN "sv_drop" ELSE "sv_select"
              /\ UNCHANGED <<rx, stats, hist>>
         ELSE /\ UNCHANGED <<thread, stop>>
              /\ mpc' = IF mpc = "sv_stop" THEN "sv_drop" ELSE "sv_select"
              /\ IF mpc = "sv_drop" THEN Dropped(c, hist) ELSE UNCHANGED <<rx, stats, hist>>
    /\ UNCHANGED <<video_capture, selected_video, last_error, show_stats, mloc,
                   nsess, workerVars, nbuf, sel, mj, rs, devs, fr>>

\* VideoCapture::stop, up to the join: called by set_video and again by Drop
\* when cap goes out of scope.
\*   if let Some(handle) = self.thread.take() { self.stop.store(true); ..join }
VideoCapture_stop ==
    /\ mpc \in {"sv_stop", "sv_drop"}
    /\ LET c == mloc.cap IN
       IF thread[c] = "some"
         THEN /\ thread' = [thread EXCEPT ![c] = "none"]
              /\ stop' = [stop EXCEPT ![c] = TRUE]
              /\ mpc' = IF mpc = "sv_stop" THEN "sv_join" ELSE "sv_dropjoin"
              /\ UNCHANGED <<rx, stats, hist>>
         ELSE /\ UNCHANGED <<thread, stop>>
              /\ mpc' = IF mpc = "sv_stop" THEN "sv_drop" ELSE "sv_select"
              /\ IF mpc = "sv_drop" THEN Dropped(c, hist) ELSE UNCHANGED <<rx, stats, hist>>
    /\ UNCHANGED <<video_capture, selected_video, last_error, show_stats, mloc,
                   nsess, workerVars, nbuf, sel, mj, rs, devs, fr>>

\* Mutant: the join returns while the thread still runs.
VideoCapture_joinDetached ==
    /\ mpc \in {"sv_join", "sv_dropjoin"}
    /\ mpc' = IF mpc = "sv_join" THEN "sv_drop" ELSE "sv_select"
    /\ LET h == [hist EXCEPT !.stopped[mloc.cap] = TRUE] IN
       IF mpc = "sv_dropjoin"
         THEN Dropped(mloc.cap, h)
         ELSE hist' = h /\ UNCHANGED <<rx, stats>>
    /\ UNCHANGED <<video_capture, selected_video, last_error, show_stats, mloc,
                   nsess, stop, thread, workerVars, nbuf, sel, mj, rs, devs, fr>>

\* let _ = handle.join(): returns once the thread has terminated.
VideoCapture_join ==
    /\ mpc \in {"sv_join", "sv_dropjoin"}
    /\ wpc[mloc.cap] = "exited"
    /\ mpc' = IF mpc = "sv_join" THEN "sv_drop" ELSE "sv_select"
    /\ LET h == [hist EXCEPT !.stopped[mloc.cap] = TRUE] IN
       IF mpc = "sv_dropjoin"
         THEN Dropped(mloc.cap, h)
         ELSE hist' = h /\ UNCHANGED <<rx, stats>>
    /\ UNCHANGED <<video_capture, selected_video, last_error, show_stats, mloc,
                   nsess, stop, thread, workerVars, nbuf, sel, mj, rs, devs, fr>>

\* start_video_capture returning Ok: the channel, the stop flag and the stats
\* of a new session, and its thread spawned.
NewSession(s) ==
    /\ rx' = [rx EXCEPT ![s] = << >>]
    /\ stop' = [stop EXCEPT ![s] = FALSE]
    /\ thread' = [thread EXCEPT ![s] = "some"]
    /\ stats' = [stats EXCEPT ![s] = CaptureStats_new]
    /\ wpc' = [wpc EXCEPT ![s] = "init"]
    /\ nsess' = s

\* Mutant: the error of a failed start is swallowed.
StartFailedSilent ==
    /\ hist' = [hist EXCEPT !.failed = TRUE]
    /\ UNCHANGED <<last_error, video_capture, sessVars, wpc>>

\* Err(e) => self.last_error = Some(format!("Video: {e}"))
StartFailed ==
    /\ last_error' = "video"
    /\ hist' = [hist EXCEPT !.failed = TRUE]
    /\ UNCHANGED <<video_capture, sessVars, wpc>>

\* self.selected_video = sel; if let Some(i) = sel { match start_video_capture ..
SetVideoStart ==
    /\ mpc = "sv_select"
    /\ selected_video' = mloc.sel
    /\ \/ /\ mloc.sel = 0
          /\ mpc' = "idle"
          /\ mloc' = MLocInit
          /\ UNCHANGED <<video_capture, last_error, sessVars, wpc, hist>>
       \/ /\ mloc.sel # 0
          /\ StartFailed
          /\ mpc' = "idle"
          /\ mloc' = MLocInit
       \/ /\ mloc.sel # 0
          /\ nsess < MaxSessions
          \* Ok(cap) => { self.video_capture = Some(cap); apply_stats_enabled ..
          /\ NewSession(nsess + 1)
          /\ video_capture' = nsess + 1
          /\ mpc' = "ase_enable"
          /\ UNCHANGED <<last_error, mloc, hist>>
    /\ UNCHANGED <<show_stats, wloc, nbuf, sel, mj, rs, devs, fr>>

\* The end of apply_stats_enabled: back in set_video (self.last_error = None)
\* or in toggle_stats.
AfterApply ==
    /\ mpc' = "idle"
    /\ mloc' = MLocInit
    /\ last_error' = IF mloc.ret = "set_video" THEN "none" ELSE last_error

\* apply_stats_enabled: cap.stats.set_enabled(self.show_stats)
ApplyStatsEnable ==
    /\ mpc = "ase_enable"
    /\ IF video_capture # 0
         THEN /\ stats' = [stats EXCEPT ![video_capture].enabled = show_stats]
              /\ wloc' = [wloc EXCEPT ![video_capture].pre =
                             show_stats /\ wloc[video_capture].stats_on
                                        /\ wpc[video_capture] \in Holding]
              /\ IF show_stats
                   THEN mpc' = "ase_reset" /\ UNCHANGED <<last_error, mloc>>
                   ELSE AfterApply
         ELSE /\ UNCHANGED <<stats, wloc>>
              /\ AfterApply
    /\ UNCHANGED <<video_capture, selected_video, show_stats, nsess, rx, stop,
                   thread, wpc, nbuf, hist, sel, mj, rs, devs, fr>>

\* Mutant: the drops survive the reset.
ApplyStatsResetKeepDrops ==
    /\ mpc = "ase_reset"
    /\ LET c == video_capture IN
       /\ stats' = [stats EXCEPT ![c].frames = 0, ![c].decode_us = 0]
       /\ hist' = [hist EXCEPT !.clean[c] = @ /\ stats[c].frames + stats[c].drops = 0,
                               !.nsent[c] = 0, !.ndisc[c] = 0]
    /\ AfterApply
    /\ UNCHANGED <<video_capture, selected_video, show_stats, nsess, rx, stop,
                   thread, workerVars, nbuf, sel, mj, rs, devs, fr>>

\* apply_stats_enabled: if self.show_stats { cap.stats.reset(); .. }
ApplyStatsReset ==
    /\ mpc = "ase_reset"
    /\ LET c == video_capture IN
       /\ stats' = [stats EXCEPT ![c] = CaptureStats_reset(@)]
       /\ hist' = [hist EXCEPT !.clean[c] = @ /\ stats[c].frames + stats[c].drops = 0,
                               !.nsent[c] = 0, !.ndisc[c] = 0]
    /\ AfterApply
    /\ UNCHANGED <<video_capture, selected_video, show_stats, nsess, rx, stop,
                   thread, workerVars, nbuf, sel, mj, rs, devs, fr>>

\* toggle_stats (F3, or the Stats checkbox)
ToggleStats ==
    /\ mpc = "idle"
    /\ show_stats' = ~show_stats
    /\ mloc' = [mloc EXCEPT !.ret = "toggle"]
    /\ mpc' = "ase_enable"
    /\ hist' = [hist EXCEPT !.tk = NoTake]
    /\ UNCHANGED <<video_capture, selected_video, last_error, sessVars,
                   workerVars, nbuf, sel, mj, rs, devs, fr>>

\* list_video_devices.  A path is the sequence of its components, a reported
\* name a string; a display name is the reported name with a suffix, "" when
\* none is appended (format!("{name} ({suffix})")).  raw holds the capture
\* devices the platform enumerates, each with a path of its own.
MaxDevices == 3
Paths == {<<"dev", "video0">>, <<"dev", "video1">>, <<"dev", "video2">>}
Names == {"Cam", "Web"}
Platforms == {"linux", "windows"}

RawLists ==
    UNION {{r \in [1..n -> Paths \X Names] :
              \A i, j \in 1..n : i # j => r[i][1] # r[j][1]} : n \in 0..MaxDevices}

\* counts: HashMap<String, usize>
counts(raw, name) == Cardinality({i \in DOMAIN raw : raw[i][2] = name})

\* path.rsplit('/').next()
suffix_of(path) == path[Len(path)]

\* platform/linux.rs
list_video_devices_linux(raw) ==
    [i \in DOMAIN raw |->
        [id |-> raw[i][1],
         name |-> [name |-> raw[i][2],
                   suffix |-> IF counts(raw, raw[i][2]) > 1 THEN suffix_of(raw[i][1]) ELSE ""]]]

\* platform/windows.rs: the friendly name and the symbolic link as they are
list_video_devices_windows(raw) ==
    [i \in DOMAIN raw |-> [id |-> raw[i][1], name |-> [name |-> raw[i][2], suffix |-> ""]]]

ListVideoDevices ==
    /\ devs.pc = "enum"
    /\ devs' = [devs EXCEPT !.pc = "listed",
                            !.out = IF devs.platform = "linux"
                                      THEN list_video_devices_linux(devs.raw)
                                      ELSE list_video_devices_windows(devs.raw)]
    /\ UNCHANGED <<appVars, sessVars, workerVars, nbuf, hist, sel, mj, rs, fr>>

\* refresh_devices.  On Ok the list is replaced and a selection that no longer
\* indexes it is cleared by set_video(None); on Err nothing is assigned.
\* (The audio list, refreshed only while it is empty, is not followed.)
refresh_devices(ok, list) ==
    /\ mpc = "idle"
    /\ IF ~ok
         THEN /\ devs' = [devs EXCEPT !.last_refresh = 1 - @, !.result = "err"]
              /\ UNCHANGED <<video_capture, mpc, mloc, hist>>
         ELSE /\ devs' = [video_devices |-> list, last_refresh |-> 1 - devs.last_refresh,
                          result |-> "ok"]
              /\ IF selected_video # 0 /\ selected_video > Len(list)
                   THEN /\ mloc' = [mloc EXCEPT !.sel = 0, !.cap = video_capture,
                                                !.ret = "set_video"]
                        /\ video_capture' = 0
                        /\ mpc' = IF video_capture # 0 THEN "sv_stop" ELSE "sv_select"
                        /\ hist' = [hist EXCEPT !.tk = NoTake, !.failed = FALSE]
                   ELSE UNCHANGED <<video_capture, mpc, mloc, hist>>
    /\ UNCHANGED <<selected_video, last_error, show_stats, sessVars, workerVars,
                   nbuf, sel, mj, rs, fr>>

RefreshDevices == \E ok \in BOOLEAN, list \in DeviceLists : refresh_devices(ok, list)

\* the device menu offers the devices of the list
SelectListed == \E v \in {0} \cup Devices : v <= Len(devs.video_devices) /\ SetVideo(v)

\* redraw: if let Some(frame) = self.app.take_latest_frame() { render.update_frame }
\* take_latest_frame: let cap = self.video_capture.as_ref()?; let mut latest = None;
Redraw ==
    /\ mpc = "idle"
    /\ LET c == video_capture IN
       IF c = 0
         THEN /\ mpc' = "idle"
              /\ hist' = [hist EXCEPT !.tk = [NoTake EXCEPT !.done = TRUE]]
         ELSE /\ mpc' = "tlf"
              /\ hist' = [hist EXCEPT
                   !.polled[c] = TRUE,
                   !.tk = [NoTake EXCEPT
                             !.sess = c,
                             !.n = hist.ncap[c],
                             !.fresh = /\ ~hist.polled[c]
                                       /\ Boundary(c)
                                       /\ hist.ncap[c] >= 1
                                       /\ hist.allok[c]]]
    /\ UNCHANGED <<video_capture, selected_video, last_error, show_stats, mloc,
                   sessVars, workerVars, nbuf, sel, mj, rs, devs, fr>>

\* Mutant: the first frame received is kept.
KeepFirst(cur, frame) == IF cur = NoFrame THEN frame ELSE cur

\* latest = Some(frame)
Latest(cur, frame) == frame

\* while let Ok(frame) = cap.rx.try_recv() { latest = Some(frame); } .. latest
TakeLatestFrame ==
    /\ mpc = "tlf"
    /\ LET c == video_capture IN
       IF ~ChanIsEmpty(rx[c])
         THEN /\ rx' = [rx EXCEPT ![c] = Tail(@)]
              /\ mloc' = [mloc EXCEPT !.latest = Latest(@, Head(rx[c]))]
              /\ hist' = [hist EXCEPT !.tk.got = Append(@, Head(rx[c]).seq),
                                      !.lastgot[c] = Head(rx[c]).seq]
              /\ mpc' = mpc
         ELSE /\ rx' = rx
              /\ mloc' = MLocInit
              /\ mpc' = "idle"
              /\ hist' = [hist EXCEPT
                   !.returned[c] = @ + (IF mloc.latest # NoFrame THEN 1 ELSE 0),
                   !.tk.result = mloc.latest,
                   !.tk.uploads = IF mloc.latest # NoFrame THEN 1 ELSE 0,
                   !.tk.done = TRUE,
                   !.settled[c] = Boundary(c)]
    /\ UNCHANGED <<video_capture, selected_video, last_error, show_stats, nsess,
                   stop, thread, stats, workerVars, nbuf, sel, mj, rs, devs, fr>>

Main ==
    \/ \E v \in {0} \cup Devices : SetVideo(v)
    \/ VideoCapture_stop
    \/ VideoCapture_join
    \/ SetVideoStart
    \/ ApplyStatsEnable
    \/ ApplyStatsReset
    \/ ToggleStats
    \/ Redraw
    \/ TakeLatestFrame

\* ------------------------------------------------------------ select_format
\* A candidate mode (FormatChoice).  fps is in hundredths of a frame per
\* second; NoFps is Option::None.
NoFps == 0 - 1
FourccOrder == <<"NV12", "YUYV", "MJPG">>     \* for fourcc in [nv12, yuyv, mjpg]
Fourccs == {"NV12", "YUYV", "MJPG"}
SizeSet == {<<1920, 1080>>, <<1280, 720>>, <<960, 960>>, <<640, 480>>}
FpsSet == {NoFps, 25, 3000, 5992, 6000, 6008}
CapSet == {<<0, 0>>, <<1280, 720>>, <<1920, 720>>, <<1920, 1080>>}   \* <<0, 0>> is None
NoChoice == [fourcc |-> "none", width |-> 0, height |-> 0, fps |-> NoFps]
ChoicesOf(f) ==
    {[fourcc |-> f, width |-> sz[1], height |-> sz[2], fps |-> r] :
        sz \in SizeSet, r \in FpsSet}

Area(c) == c.width * c.height

\* a.fps.unwrap_or(0.0)
FpsOr0(c) == IF c.fps = NoFps THEN 0 ELSE c.fps

Abs(x) == IF x < 0 THEN 0 - x ELSE x

FpsTolerance == 10      \* 0.1 frame per second

format_rank(fourcc) ==
    CASE fourcc = "NV12" -> 3
      [] fourcc = "YUYV" -> 2
      [] fourcc = "MJPG" -> 1
      [] OTHER -> 0

Cmp(x, y) == IF x < y THEN "Less" ELSE IF x > y THEN "Greater" ELSE "Equal"

\* Mutant: the frame rates are compared without tolerance.
compare_choiceExact(a, b) ==
    IF Area(a) # Area(b) THEN Cmp(Area(a), Area(b))
    ELSE IF FpsOr0(a) # FpsOr0(b) THEN Cmp(FpsOr0(a), FpsOr0(b))
    ELSE Cmp(format_rank(a.fourcc), format_rank(b.fourcc))

compare_choice(a, b) ==
    IF Area(a) # Area(b) THEN Cmp(Area(a), Area(b))
    ELSE IF Abs(FpsOr0(a) - FpsOr0(b)) > FpsTolerance
           THEN Cmp(FpsOr0(a), FpsOr0(b))
           ELSE Cmp(format_rank(a.fourcc), format_rank(b.fourcc))

\* choices.sort_by(|a, b| compare_choice(b, a)): the stable insertion sort the
\* standard library runs on a slice this short; x goes left past every
\* element it is less than.
is_less(x, y) == compare_choice(y, x) = "Less"

RECURSIVE InsertPos(_, _, _)
InsertPos(v, x, j) ==
    IF j >= 1 /\ is_less(x, v[j]) THEN InsertPos(v, x, j - 1) ELSE j

InsertTail(v, x) ==
    LET j == InsertPos(v, x, Len(v)) IN
    SubSeq(v, 1, j) \o <<x>> \o SubSeq(v, j + 1, Len(v))

RECURSIVE sort_by(_)
sort_by(v) ==
    IF Len(v) <= 1 THEN v
    ELSE InsertTail(sort_by(SubSeq(v, 1, Len(v) - 1)), v[Len(v)])

\* choices.iter().max_by_key(|c| c.width * c.height): the last of the maxima
MaxByArea(v) ==
    LET top == {i \in 1..Len(v) : \A j \in 1..Len(v) : Area(v[j]) <= Area(v[i])}
    IN v[CHOOSE i \in top : \A j \in top : j <= i]

\* Mutant: the tolerance is 0.5.
SameAspectLoose(c, p) ==
    Abs(c.width * p.height - p.width * c.height) * 100 < 50 * c.height * p.height

\* (ratio - preferred).abs() < 0.02, ratio = width / height
SameAspect(c, p) ==
    Abs(c.width * p.height - p.width * c.height) * 100 < 2 * c.height * p.height

\* Mutant: only the width is compared with the cap.
FitsCapWidth(c, cap) == c.width <= cap[1]

\* c.width <= max_w && c.height <= max_h
FitsCap(c, cap) == c.width <= cap[1] /\ c.height <= cap[2]

\* Mutant: the rate is truncated.
RoundFpsTrunc(fps) ==
    IF fps = NoFps THEN NoFps ELSE fps \div 100

\* choice.fps.map(|v| v.round().max(1.0) as u32)
RoundFps(fps) ==
    IF fps = NoFps THEN NoFps
    ELSE LET r == (fps + 50) \div 100 IN IF r < 1 THEN 1 ELSE r

NoRet == [kind |-> "none", fourcc |-> "none", width |-> 0, height |-> 0, fps |-> NoFps]

\* What an earlier call of select_format on the same device ended with.
NoPrev ==
    [ run |-> FALSE, choices |-> << >>, answers |-> << >>,
      current |-> [fourcc |-> "none", width |-> 0, height |-> 0], ret |-> NoRet ]

SelOff ==
    [ pc |-> "off", offered |-> [f \in Fourccs |-> NoChoice], max_size |-> <<0, 0>>,
      choices |-> << >>, tried |-> 0, answers |-> << >>,
      current |-> [fourcc |-> "none", width |-> 0, height |-> 0], ret |-> NoRet,
      prev |-> NoPrev ]

capVars == <<appVars, sessVars, workerVars, nbuf, hist, devs, fr>>

\* dev.format()?, dev.enum_formats()?, then one best_choice_for_fourcc per
\* layout the device lists, in the order NV12, YUYV, MJPG.
SelectCollect ==
    /\ sel.pc = "collect"
    /\ \/ sel' = [sel EXCEPT !.pc = "done", !.ret = [NoRet EXCEPT !.kind = "err_io"]]
       \/ sel' = [sel EXCEPT
             !.pc = "aspect",
             !.choices = LET pick(i) == sel.offered[FourccOrder[i]]
                             idx == SelectSeq(<<1, 2, 3>>, LAMBDA i : pick(i) # NoChoice)
                         IN [k \in 1..Len(idx) |-> pick(idx[k])]]
    /\ UNCHANGED <<capVars, mj, rs>>

\* keep the candidates with the aspect ratio of the largest one
SelectAspect ==
    /\ sel.pc = "aspect"
    /\ LET filtered ==
             IF sel.choices = << >> THEN << >>
             ELSE SelectSeq(sel.choices,
                            LAMBDA c : SameAspect(c, MaxByArea(sel.choices)))
       IN sel' = [sel EXCEPT !.pc = "cap",
                             !.choices = IF filtered # << >> THEN filtered ELSE @]
    /\ UNCHANGED <<capVars, mj, rs>>

\* Mutant: the cap is not applied.
SelectCapSkipped ==
    /\ sel.pc = "cap"
    /\ sel' = [sel EXCEPT !.pc = "sort"]
    /\ UNCHANGED <<capVars, mj, rs>>

\* if let Some((max_w, max_h)) = max_size: keep the candidates that fit
SelectCap ==
    /\ sel.pc = "cap"
    /\ LET filtered ==
             IF sel.max_size = <<0, 0>> THEN << >>
             ELSE SelectSeq(sel.choices, LAMBDA c : FitsCap(c, sel.max_size))
       IN sel' = [sel EXCEPT !.pc = "sort",
                             !.choices = IF filtered # << >> THEN filtered ELSE @]
    /\ UNCHANGED <<capVars, mj, rs>>

\* Mutant: the candidates are sometimes left unsorted.
SelectSortMaybe ==
    /\ sel.pc = "sort"
    /\ \E v \in {sel.choices, sort_by(sel.choices)} :
         sel' = [sel EXCEPT !.pc = "try", !.choices = v]
    /\ UNCHANGED <<capVars, mj, rs>>

SelectSort ==
    /\ sel.pc = "sort"
    /\ sel' = [sel EXCEPT !.pc = "try", !.choices = sort_by(@)]
    /\ UNCHANGED <<capVars, mj, rs>>

\* The answers set_format can give to a request: Err, or Ok with the format
\* the driver has set, which is the layout asked for in the size asked for or
\* in a size the driver adjusted it to.
DriverSizes(choice) == {<<choice.width, choice.height>>, <<640, 480>>}

\* for choice in choices { if let Ok(set) = dev.set_format(..) { return Ok((set, fps)) } }
SelectTry ==
    /\ sel.pc = "try"
    /\ sel.tried < Len(sel.choices)
    /\ LET choice == sel.choices[sel.tried + 1] IN
       \/ sel' = [sel EXCEPT !.tried = @ + 1, !.answers = Append(@, FALSE)]
       \/ \E sz \in DriverSizes(choice) :
            sel' = [sel EXCEPT
              !.tried = @ + 1,
              !.answers = Append(@, TRUE),
              !.pc = "done",
              !.ret = [kind |-> "set", fourcc |-> choice.fourcc, width |-> sz[1],
                       height |-> sz[2], fps |-> RoundFps(choice.fps)]]
    /\ UNCHANGED <<capVars, mj, rs>>

\* The format dev.format() reported at the start of select_format; it is used
\* here only, so it is drawn here.
CurrentSet ==
    {[fourcc |-> f, width |-> sz[1], height |-> sz[2]] :
        f \in Fourccs \cup {"OTHER"}, sz \in {<<1920, 1080>>, <<640, 480>>}}

\* Mutant: the current format is returned whatever its layout.
SelectFallbackAny ==
    /\ sel.pc = "try"
    /\ sel.tried = Len(sel.choices)
    /\ \E cur \in CurrentSet :
         sel' = [sel EXCEPT
           !.pc = "done",
           !.current = cur,
           !.ret = [kind |-> "current", fourcc |-> cur.fourcc, width |-> cur.width,
                    height |-> cur.height, fps |-> NoFps]]
    /\ UNCHANGED <<capVars, mj, rs>>

\* no candidate was accepted: the format the device had at the start
SelectFallback ==
    /\ sel.pc = "try"
    /\ sel.tried = Len(sel.choices)
    /\ \E cur \in CurrentSet :
         sel' = [sel EXCEPT
           !.pc = "done",
           !.current = cur,
           !.ret = IF cur.fourcc \in {"YUYV", "NV12", "MJPG"}
                     THEN [kind |-> "current", fourcc |-> cur.fourcc, width |-> cur.width,
                           height |-> cur.height, fps |-> NoFps]
                     ELSE [NoRet EXCEPT !.kind = "err_unsupported"]]
    /\ UNCHANGED <<capVars, mj, rs>>

\* The session is started again on the same device with the same cap
\* (set_video, start_video_capture, spawn_capture): select_format runs anew.
SelectAgain ==
    /\ sel.pc = "done"
    /\ ~sel.prev.run
    /\ sel' = [SelOff EXCEPT
                 !.pc = "collect",
                 !.offered = sel.offered,
                 !.max_size = sel.max_size,
                 !.prev = [run |-> TRUE, choices |-> sel.choices, answers |-> sel.answers,
                           current |-> sel.current, ret |-> sel.ret]]
    /\ UNCHANGED <<capVars, mj, rs>>

\* ------------------------------------------------- the MJPG decode path
\* spawn_capture for a negotiated MJPG mode: the hardware decoder is looked
\* up, its pipeline variants are launched, and the frames of the session are
\* produced by the pipeline or decoded on the capture thread.
DecoderOrder == <<"nvjpegdec", "vaapijpegdec", "v4l2jpegdec", "qsvjpegdec">>
Decoders == {DecoderOrder[i] : i \in 1..Len(DecoderOrder)}

\* the first decoder whose element factory exists
mjpeg_hw_decoder(installed) ==
    LET found == {i \in 1..Len(DecoderOrder) : DecoderOrder[i] \in installed}
    IN IF found = {} THEN "none"
       ELSE DecoderOrder[CHOOSE i \in found : \A j \in found : i <= j]

mjpeg_pipeline_variants(decoder, postproc) ==
    (IF decoder = "vaapijpegdec" /\ postproc THEN <<"postproc">> ELSE << >>)
        \o <<"plain", "videoconvert">>

Bt709MinWidth == 1280

\* Mutant: a width of exactly 1280 still counts as standard definition.
default_for_sizeAbove(width) ==
    [matrix |-> IF width > Bt709MinWidth THEN "Bt709" ELSE "Bt601", range |-> "Limited"]

\* ColorInfo::default_for_size
default_for_size(width) ==
    [matrix |-> IF width >= Bt709MinWidth THEN "Bt709" ELSE "Bt601", range |-> "Limited"]

\* color_info_from_gst(info, MJPG): range and matrix as the caps report them
color_info_from_gst(width, range, matrix) ==
    LET out == [default_for_size(width) EXCEPT !.range = "Full"] IN
    [ range  |-> CASE range = "Range0_255" -> "Full"
                   [] range = "Range16_235" -> "Limited"
                   [] OTHER -> out.range,
      matrix |-> CASE matrix = "Bt709" -> "Bt709"
                   [] matrix = "Bt2020" -> "Bt2020"
                   [] matrix \in {"Bt601", "Fcc", "Smpte240m"} -> "Bt601"
                   [] OTHER -> out.matrix ]

NoColor == [matrix |-> "none", range |-> "none"]
NoMjFrame == [width |-> 0, reported |-> "none", color |-> NoColor]

MjOff ==
    [ pc |-> "off", installed |-> {}, postproc |-> FALSE, decoder |-> "none",
      variants |-> << >>, launched |-> << >>, gst_init |-> FALSE, path |-> "none",
      color_info |-> NoColor, frame |-> NoMjFrame ]

notMj == <<capVars, sel, rs>>

\* if let Some(decoder) = mjpeg_hw_decoder() { .. spawn_capture_gst(..) .. }
MjPickDecoder ==
    /\ mj.pc = "pick"
    /\ LET d == mjpeg_hw_decoder(mj.installed) IN
       IF d = "none"
         THEN mj' = [mj EXCEPT !.pc = "running", !.path = "software"]
         ELSE mj' = [mj EXCEPT !.pc = "gst_init", !.decoder = d]
    /\ UNCHANGED notMj

\* spawn_capture_gst: gst::init()?, then build_mjpeg_pipeline
MjGstInit ==
    /\ mj.pc = "gst_init"
    /\ \/ mj' = [mj EXCEPT !.pc = "reopen"]
       \/ mj' = [mj EXCEPT !.pc = "launch", !.gst_init = TRUE,
                           !.variants = mjpeg_pipeline_variants(mj.decoder, mj.postproc)]
    /\ UNCHANGED notMj

\* build_mjpeg_pipeline: launch_pipeline on the next variant; the first that
\* reaches Playing is returned.
MjLaunch ==
    /\ mj.pc = "launch"
    /\ Len(mj.launched) < Len(mj.variants)
    /\ LET v == <<mj.decoder, mj.variants[Len(mj.launched) + 1]>> IN
       \/ mj' = [mj EXCEPT !.launched = Append(@, v)]
       \/ mj' = [mj EXCEPT !.launched = Append(@, v), !.pc = "running", !.path = "gst"]
    /\ UNCHANGED notMj

\* every variant failed: spawn_capture_gst returns Err
MjAllFailed ==
    /\ mj.pc = "launch"
    /\ Len(mj.launched) = Len(mj.variants)
    /\ mj' = [mj EXCEPT !.pc = "reopen"]
    /\ UNCHANGED notMj

\* dev = Device::with_path(id)?; let _ = dev.set_format(&fmt); then the
\* v4l capture thread, which decodes on the thread
MjReopen ==
    /\ mj.pc = "reopen"
    /\ \/ mj' = [mj EXCEPT !.pc = "failed", !.path = "err"]
       \/ mj' = [mj EXCEPT !.pc = "running", !.path = "software"]
    /\ UNCHANGED notMj

FrameWidths == {640, 1920}
GstRanges == {"Unknown", "Range0_255", "Range16_235"}
GstMatrices == {"Unknown", "Bt709", "Bt601", "Bt2020"}

\* A frame of the hardware path: the colour is computed from the caps of the
\* first sample and kept.
MjFrameGst ==
    /\ mj.pc = "running"
    /\ mj.path = "gst"
    /\ IF mj.color_info = NoColor
         THEN \E w \in FrameWidths, r \in GstRanges, m \in GstMatrices :
                LET c == color_info_from_gst(w, r, m) IN
                mj' = [mj EXCEPT !.color_info = c,
                                 !.frame = [width |-> w, reported |-> r, color |-> c]]
         ELSE mj' = [mj EXCEPT !.frame.color = mj.color_info]
    /\ UNCHANGED notMj

\* A frame decoded on the thread: decode_mjpeg, color: default_for_size(w)
MjFrameSoftware ==
    /\ mj.pc = "running"
    /\ mj.path = "software"
    /\ \E w \in FrameWidths :
         mj' = [mj EXCEPT !.frame = [width |-> w, reported |-> "Unknown",
                                     color |-> default_for_size(w)]]
    /\ UNCHANGED notMj

\* ------------------------------------------- the frames of a capture thread
\* The three threads that build frames: "v4l" (spawn_capture, linux.rs),
\* "gst" (spawn_capture_gst, linux.rs) and "mf" (spawn_capture, windows.rs).
\* A session is its thread with the mode it was started for; sent is the last
\* frame given to tx.try_send.
FrWidths == {640, 1279, 1280, 1920}
DriverStrides == {0, 2048}        \* fmt.stride, MF_MT_DEFAULT_STRIDE; 0: not reported
V4lFourccs == {"YUYV", "NV12", "MJPG", "OTHER"}
GstFormats == {"Nv12", "Yuy2", "Rgba", "Other"}
MfSubtypes == {"NV12", "YUY2", "RGB32"}

NoSent == [width |-> 0, format |-> "none", stride |-> 0, uv_stride |-> 0, color |-> NoColor]

FrOff ==
    [ pc |-> "off", path |-> "none", kind |-> "none", width |-> 0, stride |-> 0,
      color_info |-> NoColor, reported |-> NoColor, sent |-> NoSent ]

notFr == <<appVars, sessVars, workerVars, nbuf, hist, devs, sel, mj, rs>>

\* spawn_capture (linux): let stride = if fmt.stride == 0 { .. } else { fmt.stride }
v4l_stride(fourcc, width, fmt_stride) ==
    IF fmt_stride = 0
      THEN IF fourcc = "YUYV" THEN width * 2 ELSE width
      ELSE fmt_stride

\* configure_reader (windows): MF_MT_DEFAULT_STRIDE, else by subtype
mf_stride(subtype, width, default_stride) ==
    IF default_stride = 0
      THEN IF subtype = "NV12" THEN width
           ELSE IF subtype = "YUY2" THEN width * 2 ELSE width * 4
      ELSE default_stride

\* The thread is started for a mode of its device.
FrSpawn ==
    /\ fr.pc = "spawn"
    /\ \E width \in FrWidths, driver_stride \in DriverStrides :
         fr' = [fr EXCEPT
                  !.pc = "loop",
                  !.width = width,
                  !.stride = CASE fr.path = "v4l" -> v4l_stride(fr.kind, width, driver_stride)
                               [] fr.path = "mf" -> mf_stride(fr.kind, width, driver_stride)
                               [] OTHER -> 0]
    /\ UNCHANGED notFr

\* Mutant: the NV12 frame carries no chroma stride.
v4l_frameNoUv(fourcc, width, stride, decoded_width) ==
    CASE fourcc = "YUYV" ->
           [width |-> width, format |-> "Yuyv", stride |-> stride, uv_stride |-> 0,
            color |-> default_for_size(width)]
      [] fourcc = "NV12" ->
           [width |-> width, format |-> "Nv12", stride |-> stride, uv_stride |-> 0,
            color |-> default_for_size(width)]
      [] fourcc = "MJPG" /\ decoded_width > 0 ->
           [width |-> decoded_width, format |-> "Rgba", stride |-> decoded_width * 4,
            uv_stride |-> 0, color |-> default_for_size(decoded_width)]
      [] OTHER -> NoSent

\* The frame of the v4l thread; decoded_width is 0 when decode_mjpeg fails.
\* NoSent: the iteration ends with `continue`.
v4l_frame(fourcc, width, stride, decoded_width) ==
    CASE fourcc = "YUYV" ->
           [width |-> width, format |-> "Yuyv", stride |-> stride, uv_stride |-> 0,
            color |-> default_for_size(width)]
      [] fourcc = "NV12" ->
           [width |-> width, format |-> "Nv12", stride |-> stride, uv_stride |-> stride,
            color |-> default_for_size(width)]
      [] fourcc = "MJPG" /\ decoded_width > 0 ->
           [width |-> decoded_width, format |-> "Rgba", stride |-> decoded_width * 4,
            uv_stride |-> 0, color |-> default_for_size(decoded_width)]
      [] OTHER -> NoSent

FrBuildV4l ==
    /\ fr.pc = "loop"
    /\ fr.path = "v4l"
    /\ \E decoded_width \in {0} \cup FrWidths :
         LET frame == v4l_frame(fr.kind, fr.width, fr.stride, decoded_width) IN
         /\ frame # NoSent
         /\ fr' = [fr EXCEPT !.sent = frame]
    /\ UNCHANGED notFr

\* info.stride() of a GstVideoInfo: one entry per plane of the format, 0 for
\* a plane the format does not have
gst_strides(format, width) ==
    CASE format = "Nv12" -> <<width, width>>
      [] format = "Yuy2" -> <<width * 2, 0>>
      [] OTHER -> <<width * 4, 0>>

\* The frame of the GStreamer thread; the colour is computed from the caps of
\* the first sample and kept.
gst_frame(format, width, color) ==
    CASE format = "Nv12" ->
           [width |-> width, format |-> "Nv12", stride |-> gst_strides(format, width)[1],
            uv_stride |-> gst_strides(format, width)[2], color |-> color]
      [] format = "Yuy2" ->
           [width |-> width, format |-> "Yuyv", stride |-> gst_strides(format, width)[1],
            uv_stride |-> 0, color |-> color]
      [] format = "Rgba" ->
           [width |-> width, format |-> "Rgba", stride |-> gst_strides(format, width)[1],
            uv_stride |-> 0, color |-> color]
      [] OTHER -> NoSent

FrBuildGst ==
    /\ fr.pc = "loop"
    /\ fr.path = "gst"
    /\ \E r \in GstRanges, m \in GstMatrices :
         LET first == fr.color_info = NoColor
             color == IF first THEN color_info_from_gst(fr.width, r, m) ELSE fr.color_info
             frame == gst_frame(fr.kind, fr.width, color)
         IN fr' = [fr EXCEPT !.color_info = color,
                             !.reported = IF first THEN [matrix |-> m, range |-> r] ELSE @,
                             !.sent = frame]
    /\ UNCHANGED notFr

\* The frame of the Media Foundation thread
mf_frame(subtype, width, stride) ==
    CASE subtype = "NV12" ->
           [width |-> width, format |-> "Nv12", stride |-> stride, uv_stride |-> stride,
            color |-> default_for_size(width)]
      [] subtype = "YUY2" ->
           [width |-> width, format |-> "Yuyv", stride |-> stride, uv_stride |-> 0,
            color |-> default_for_size(width)]
      [] subtype = "RGB32" ->
           [width |-> width, format |-> "Rgba", stride |-> width * 4, uv_stride |-> 0,
            color |-> default_for_size(width)]
      [] OTHER -> NoSent

FrBuildMf ==
    /\ fr.pc = "loop"
    /\ fr.path = "mf"
    /\ fr' = [fr EXCEPT !.sent = mf_frame(fr.kind, fr.width, fr.stride)]
    /\ UNCHANGED notFr

\* ------------------------------------------------------------ RenderState
\* The scale of the video quad.  A scale is a pair of fractions <<n, d>>;
\* vertex_scale is the pair last written to the vertex buffer (VERTICES,
\* scale 1, when the buffer is created).
One == <<1, 1>>

RECURSIVE Gcd(_, _)
Gcd(a, b) == IF b = 0 THEN a ELSE Gcd(b, a % b)

\* the quotient n / d, in lowest terms
Frac(n, d) == <<n \div Gcd(n, d), d \div Gcd(n, d)>>
NoScale == [sx |-> One, sy |-> One]

WindowSizes == {<<1280, 720>>, <<800, 800>>, <<600, 800>>, <<1920, 1200>>}
VideoSizes == {<<1920, 1080>>, <<1280, 720>>, <<640, 480>>, <<800, 800>>}

\* The shader parameters.  A coefficient is a whole number of 10^-7, the
\* literals of the table read as decimals; the f32 nearest to a literal is
\* closer to it than that unit.  y_offset, -16.0 / 255.0, is the quotient
\* to the nearest unit.
ColorMatrices == {"Bt601", "Bt709", "Bt2020"}
ColorRanges == {"Limited", "Full"}
ColorInfos == [matrix : ColorMatrices, range : ColorRanges]
ColorInfo_default == [matrix |-> "Bt709", range |-> "Limited"]

\* Mutant: the Bt601 rows of the table are used for Bt2020 as well.
color_params_from_infoTwoRows(color, output_is_srgb) ==
    LET luma == IF color.range = "Limited" THEN <<0 - 627451, 11643836>> ELSE <<0, 10000000>>
        m == CASE color.matrix = "Bt709" /\ color.range = "Limited" ->
                    <<17930000, 2130000, 5330000, 21120000>>
               [] color.matrix = "Bt709" /\ color.range = "Full" ->
                    <<15750000, 1870000, 4680000, 18560000>>
               [] color.range = "Limited" ->
                    <<15960000, 3920000, 8130000, 20170000>>
               [] OTHER ->
                    <<14020000, 3440000, 7140000, 17720000>>
    IN [ y_offset |-> luma[1], y_scale |-> luma[2],
         m_rv |-> m[1], m_gu |-> m[2], m_gv |-> m[3], m_bu |-> m[4],
         srgb_output |-> IF output_is_srgb THEN 1 ELSE 0 ]

color_params_from_info(color, output_is_srgb) ==
    LET luma == IF color.range = "Limited" THEN <<0 - 627451, 11643836>> ELSE <<0, 10000000>>
        m == CASE color.matrix = "Bt709" /\ color.range = "Limited" ->
                    <<17930000, 2130000, 5330000, 21120000>>
               [] color.matrix = "Bt2020" /\ color.range = "Limited" ->
                    <<16780000, 1870000, 6500000, 21410000>>
               [] color.matrix = "Bt601" /\ color.range = "Limited" ->
                    <<15960000, 3920000, 8130000, 20170000>>
               [] color.matrix = "Bt709" /\ color.range = "Full" ->
                    <<15750000, 1870000, 4680000, 18560000>>
               [] color.matrix = "Bt2020" /\ color.range = "Full" ->
                    <<14746000, 1645000, 5714000, 18814000>>
               [] OTHER ->
                    <<14020000, 3440000, 7140000, 17720000>>
    IN [ y_offset |-> luma[1], y_scale |-> luma[2],
         m_rv |-> m[1], m_gu |-> m[2], m_gv |-> m[3], m_bu |-> m[4],
         srgb_output |-> IF output_is_srgb THEN 1 ELSE 0 ]

\* update_color_params; color is history, the ColorInfo of the last frame
update_color_params(r, color) ==
    LET params == color_params_from_info(color, r.output_is_srgb) IN
    [r EXCEPT !.color_params = IF params # @ THEN params ELSE @, !.color = color]

\* staging is the scratch buffer of write_texture_padded; calls and slices are
\* history: the write_texture_padded calls of the last upload_frame and the
\* ranges [lo, hi) that upload_frame sliced out of the payload.
RsOff ==
    [ pc |-> "off", size |-> <<0, 0>>, video_size |-> <<1, 1>>, aspect_correct |-> TRUE,
      vertex_scale |-> NoScale, last |-> "none", written |-> FALSE,
      video_format |-> "Rgba", staging |-> <<>>, payload_len |-> 0,
      slices |-> {}, calls |-> <<>>,
      video_texture |-> [format |-> "Rgba8Unorm", size |-> <<1, 1>>],
      nv12_y_texture |-> [format |-> "R8Unorm", size |-> <<1, 1>>],
      nv12_uv_texture |-> [format |-> "Rg8Unorm", size |-> <<1, 1>>],
      created |-> {}, rewritten |-> {},
      prev |-> [uploaded |-> FALSE, size |-> <<1, 1>>, format |-> "Rgba"],
      output_is_srgb |-> FALSE,
      color_params |-> color_params_from_info(ColorInfo_default, FALSE),
      color |-> NoColor ]

notRs == <<capVars, sel, mj>>

\* update_vertices: the scale it writes, or the old one when it returns early
update_vertices(r) ==
    IF r.size[1] <= 0 \/ r.size[2] <= 0 THEN r
    ELSE IF r.aspect_correct
      THEN IF r.video_size[1] <= 0 \/ r.video_size[2] <= 0 THEN r
           ELSE \* window_aspect >= video_aspect
                IF r.size[1] * r.video_size[2] >= r.video_size[1] * r.size[2]
                  THEN [r EXCEPT !.written = TRUE,
                          !.vertex_scale = [sx |-> Frac(r.video_size[1] * r.size[2],
                                                       r.video_size[2] * r.size[1]),
                                            sy |-> One]]
                  ELSE [r EXCEPT !.written = TRUE,
                          !.vertex_scale = [sx |-> One,
                                            sy |-> Frac(r.size[1] * r.video_size[2],
                                                       r.size[2] * r.video_size[1])]]
      ELSE [r EXCEPT !.written = TRUE, !.vertex_scale = [sx |-> One, sy |-> One]]

\* resize: ignored when a dimension is 0
RsResize ==
    /\ rs.pc = "scale"
    /\ \E new_size \in WindowSizes \cup {<<0, 0>>, <<0, 720>>} :
         rs' = IF new_size[1] > 0 /\ new_size[2] > 0
                 THEN update_vertices([rs EXCEPT !.size = new_size, !.last = "resize"])
                 ELSE [rs EXCEPT !.last = "resize"]
    /\ UNCHANGED notRs

\* Mutant: the flag is stored and the vertices are left as they are.
RsSetAspectCorrectionLazy ==
    /\ rs.pc = "scale"
    /\ \E enabled \in BOOLEAN :
         rs' = [rs EXCEPT !.aspect_correct = enabled, !.last = "set_aspect_correction"]
    /\ UNCHANGED notRs

\* set_aspect_correction
RsSetAspectCorrection ==
    /\ rs.pc = "scale"
    /\ \E enabled \in BOOLEAN :
         rs' = IF rs.aspect_correct # enabled
                 THEN update_vertices([rs EXCEPT !.aspect_correct = enabled,
                                                 !.last = "set_aspect_correction"])
                 ELSE [rs EXCEPT !.last = "set_aspect_correction"]
    /\ UNCHANGED notRs

\* update_frame, upload_frame: if size_changed { self.update_vertices(); }
RsUpdateFrame ==
    /\ rs.pc = "scale"
    /\ \E fsize \in VideoSizes :
         rs' = IF rs.video_size # fsize
                 THEN update_vertices([rs EXCEPT !.video_size = fsize, !.last = "update_frame"])
                 ELSE [rs EXCEPT !.last = "update_frame"]
    /\ UNCHANGED notRs

\* ------------------------------------------------------------ specification
CaptureInit ==
    /\ video_capture = 0
    /\ selected_video = 0
    /\ last_error = "none"
    /\ show_stats = FALSE
    /\ mpc = "idle"
    /\ mloc = MLocInit
    /\ nsess = 0
    /\ rx = [s \in Sessions |-> << >>]
    /\ stop = [s \in Sessions |-> FALSE]
    /\ thread = [s \in Sessions |-> "none"]
    /\ stats = [s \in Sessions |-> CaptureStats_new]
    /\ wpc = [s \in Sessions |-> "unborn"]
    /\ wloc = [s \in Sessions |-> WLocInit]
    /\ nbuf = 0
    /\ hist = HistInit
    /\ devs = DevsInit
    /\ fr = FrOff

Init == CaptureInit /\ sel = SelOff /\ mj = MjOff /\ rs = RsOff

Next == Main \/ \E s \in Sessions : Worker(s)

Spec == Init /\ [][Next]_vars

\* The application with the periodic refresh of the device list, in front of
\* devices that deliver no buffer: a read returns with an error or not at all.
RefreshNext ==
    \/ RefreshDevices
    \/ SelectListed
    \/ VideoCapture_stop
    \/ VideoCapture_join
    \/ SetVideoStart
    \/ ApplyStatsEnable
    \/ ApplyStatsReset
    \/ ToggleStats
    \/ \E s \in Sessions : WorkerInit(s) \/ WorkerLoopHead(s) \/ WorkerReadErr(s)

RefreshSpec == Init /\ [][RefreshNext]_vars

\* A capture thread of any of the three kinds, for any mode
FrameInit ==
    /\ video_capture = 0 /\ selected_video = 0 /\ last_error = "none" /\ show_stats = FALSE
    /\ mpc = "idle" /\ mloc = MLocInit /\ nsess = 0
    /\ rx = [s \in Sessions |-> << >>]
    /\ stop = [s \in Sessions |-> FALSE]
    /\ thread = [s \in Sessions |-> "none"]
    /\ stats = [s \in Sessions |-> CaptureStats_new]
    /\ wpc = [s \in Sessions |-> "unborn"]
    /\ wloc = [s \in Sessions |-> WLocInit]
    /\ nbuf = 0 /\ hist = HistInit
    /\ sel = SelOff /\ mj = MjOff /\ rs = RsOff /\ devs = DevsInit
    /\ \E path \in {"v4l", "gst", "mf"} :
         \E kind \in (CASE path = "v4l" -> V4lFourccs
                        [] path = "gst" -> GstFormats
                        [] OTHER -> MfSubtypes) :
           fr = [FrOff EXCEPT !.pc = "spawn", !.path = path, !.kind = kind]

FrameNext ==
    \/ FrSpawn
    \/ FrBuildV4l
    \/ FrBuildGst
    \/ FrBuildMf

FrameSpec == FrameInit /\ [][FrameNext]_vars

\* list_video_devices on either platform, over every list of devices
ListInit ==
    /\ video_capture = 0 /\ selected_video = 0 /\ last_error = "none" /\ show_stats = FALSE
    /\ mpc = "idle" /\ mloc = MLocInit /\ nsess = 0
    /\ rx = [s \in Sessions |-> << >>]
    /\ stop = [s \in Sessions |-> FALSE]
    /\ thread = [s \in Sessions |-> "none"]
    /\ stats = [s \in Sessions |-> CaptureStats_new]
    /\ wpc = [s \in Sessions |-> "unborn"]
    /\ wloc = [s \in Sessions |-> WLocInit]
    /\ nbuf = 0 /\ hist = HistInit
    /\ sel = SelOff /\ mj = MjOff /\ rs = RsOff /\ fr = FrOff
    /\ \E platform \in Platforms, raw \in RawLists :
         devs = [pc |-> "enum", platform |-> platform, raw |-> raw, out |-> << >>]

ListNext == ListVideoDevices

ListSpec == ListInit /\ [][ListNext]_vars

\* The scheduler runs a live thread; the device owes it nothing.
FairSpec == Spec /\ \A s \in Sessions : WF_vars(WorkerInternal(s))

\* select_format over every device offer and cap of the bounded sets
SelInit ==
    /\ CaptureInit /\ mj = MjOff /\ rs = RsOff
    /\ \E n \in {NoChoice} \cup ChoicesOf("NV12"),
          y \in {NoChoice} \cup ChoicesOf("YUYV"),
          m \in {NoChoice} \cup ChoicesOf("MJPG"),
          cap \in CapSet :
         sel = [SelOff EXCEPT
                  !.pc = "collect",
                  !.max_size = cap,
                  !.offered = [f \in Fourccs |->
                     IF f = "NV12" THEN n ELSE IF f = "YUYV" THEN y ELSE m]]

SelNext ==
    \/ SelectCollect
    \/ SelectAspect
    \/ SelectCap
    \/ SelectSort
    \/ SelectTry
    \/ SelectFallback

SelSpec == SelInit /\ [][SelNext]_vars

\* the start of an MJPG session and its frames, for every set of installed
\* decoder elements
MjInit ==
    /\ CaptureInit /\ sel = SelOff /\ rs = RsOff
    /\ \E inst \in SUBSET Decoders, pp \in BOOLEAN :
         mj = [MjOff EXCEPT !.pc = "pick", !.installed = inst, !.postproc = pp]

MjNext ==
    \/ MjPickDecoder
    \/ MjGstInit
    \/ MjLaunch
    \/ MjAllFailed
    \/ MjReopen
    \/ MjFrameGst
    \/ MjFrameSoftware

MjSpec == MjInit /\ [][MjNext]_vars

\* The upload path.  A byte is a number below 256 and a buffer a sequence of
\* bytes; ranges are [lo, hi) over 0-based offsets as in the code.
\* wgpu::COPY_BYTES_PER_ROW_ALIGNMENT is 256; rows here are a few bytes long and
\* the alignment is scaled with them
Align == 4
Min(a, b) == IF a < b THEN a ELSE b
div_ceil(a, b) == (a + b - 1) \div b
saturating_sub(a, b) == IF a > b THEN a - b ELSE 0

\* data[lo..hi]
Slice(data, lo, hi) == SubSeq(data, lo + 1, hi)

\* the byte at 0-based offset k; a range past the end holds no bytes
ByteAt(data, k) == IF k + 1 \in DOMAIN data THEN data[k + 1] ELSE 0

\* Vec::resize(n, 0): truncates, or appends zeros; what is kept is kept as it is
resize(v, n) == [i \in 1..n |-> IF i <= Len(v) THEN v[i] ELSE 0]

\* Mutant: the end of a row is not clamped to the data.
row_endUnclamped(row_start, bytes_per_row, len) == row_start + bytes_per_row

\* let row_end = (row_start + bytes_per_row as usize).min(data.len());
row_end(row_start, bytes_per_row, len) == Min(row_start + bytes_per_row, len)

\* the rows the loop copies: it breaks at the first row that starts at or
\* after the end of the data
CopiedRows(height, bytes_per_row, len) ==
    {y \in 0..(height - 1) :
        \A z \in 0..y : z * bytes_per_row < len}

\* write_texture_padded: the new staging buffer, the buffer and row stride
\* given to queue.write_texture, and the ranges read from data
write_texture_padded(staging, height, bytes_per_row, data) ==
    LET expected == bytes_per_row * height
        needs_pad == bytes_per_row % Align # 0
        needs_fill == Len(data) < expected
    IN IF ~needs_pad /\ ~needs_fill
         THEN [ staging |-> <<>>, gpu |-> data, padded_stride |-> bytes_per_row,
                repacked |-> FALSE, reads |-> {<<0, Len(data)>>},
                data |-> data, height |-> height, bytes_per_row |-> bytes_per_row ]
         ELSE LET padded_stride == div_ceil(bytes_per_row, Align) * Align
                  resized == resize(staging, padded_stride * height)
                  rows == CopiedRows(height, bytes_per_row, Len(data))
                  RowLen(y) == row_end(y * bytes_per_row, bytes_per_row, Len(data))
                                 - y * bytes_per_row
                  filled == [i \in 1..(padded_stride * height) |->
                               LET y == (i - 1) \div padded_stride
                                   x == (i - 1) % padded_stride
                               IN IF y \in rows /\ x < RowLen(y)
                                    THEN ByteAt(data, y * bytes_per_row + x)
                                    ELSE resized[i]]
              IN [ staging |-> filled, gpu |-> filled, padded_stride |-> padded_stride,
                   repacked |-> TRUE,
                   reads |-> {<<y * bytes_per_row,
                                row_end(y * bytes_per_row, bytes_per_row, Len(data))>> :
                              y \in rows},
                   data |-> data, height |-> height, bytes_per_row |-> bytes_per_row ]

\* upload_frame
upload_frame(r, frame, data) ==
    LET size_changed == r.video_size # <<frame.width, frame.height>>
        r1 == [r EXCEPT !.video_format = frame.format,
                        !.video_size = <<frame.width, frame.height>>,
                        !.last = "update_frame",
                        !.payload_len = Len(data)]
        r2 == IF size_changed THEN update_vertices(r1) ELSE r1
    IN IF frame.format \in {"Rgba", "Yuyv"}
         THEN LET c == write_texture_padded(r.staging, frame.height, frame.stride, data)
              IN [r2 EXCEPT !.staging = c.staging, !.slices = {}, !.calls = <<c>>]
         ELSE LET uv_height == div_ceil(frame.height, 2)
                  data_len == Len(data)
                  y_bytes == Min(frame.stride * frame.height, data_len)
                  y_data == Slice(data, 0, y_bytes)
                  cy == write_texture_padded(r.staging, frame.height, frame.stride, y_data)
                  uv_bytes == frame.uv_stride * uv_height
                  uv_start == y_bytes
                  uv_len == Min(uv_bytes, saturating_sub(data_len, uv_start))
                  uv_data == Slice(data, uv_start, uv_start + uv_len)
                  cuv == write_texture_padded(cy.staging, uv_height, frame.uv_stride, uv_data)
              IN [r2 EXCEPT !.staging = cuv.staging,
                            !.slices = {<<0, y_bytes>>, <<uv_start, uv_start + uv_len>>},
                            !.calls = <<cy, cuv>>]

\* The frames of the upload path: any size, row strides and payload length.
\* Byte k of a payload is k + 1, so that no payload byte is 0.
MaxPayload == 12
UploadSizes == {<<4, 2>>, <<3, 3>>}
Strides == {3, 4}
UvStrides == {2, 4}
Formats == {"Rgba", "Yuyv", "Nv12"}
Payload(len) == [i \in 1..len |-> i]

\* a VideoFrame without its data; uv_stride is 0 unless the format is NV12
Frames ==
    { [width |-> fsize[1], height |-> fsize[2], stride |-> stride,
       uv_stride |-> uv_stride, format |-> format] :
        fsize \in UploadSizes, stride \in Strides, uv_stride \in UvStrides \cup {0},
        format \in Formats }

\* update_frame with FrameData::Owned
RsUploadFrame ==
    /\ rs.pc = "upload"
    /\ \E frame \in Frames, len \in 0..MaxPayload :
         /\ (frame.uv_stride # 0) <=> (frame.format = "Nv12")
         /\ rs' = upload_frame(rs, frame, Payload(len))
    /\ UNCHANGED notRs

\* The GPU resources of upload_frame.  video_texture serves Rgba and Yuyv
\* frames, the two nv12 textures serve Nv12 frames; created and rewritten are
\* history: the resources the last upload_frame created and the textures it
\* wrote, prev the size and format stored before it.
TexSizes == {<<4, 2>>, <<3, 3>>, <<2, 2>>, <<1, 1>>}

\* Mutant: a change of format alone keeps the resources.
needs_recreateSizeOnly(size_changed, format_changed) == size_changed

\* if size_changed || format_changed
\* Mutant: a change of size alone does not recreate.
needs_recreateFormatOnly(size_changed, format_changed) == format_changed

needs_recreate(size_changed, format_changed) == size_changed \/ format_changed

TextureFormatOf(format) == IF format = "Rgba" THEN "Rgba8Unorm" ELSE "Rg8Unorm"

\* upload_frame, its textures and bind groups
upload_textures(r, frame) ==
    LET fsize == <<frame.width, frame.height>>
        size_changed == r.video_size # fsize
        format_changed == r.video_format # frame.format
        r1 == [r EXCEPT !.video_format = frame.format,
                        !.video_size = fsize,
                        !.last = "update_frame",
                        !.prev = [uploaded |-> r.last = "update_frame",
                                  size |-> r.video_size, format |-> r.video_format]]
        r2 == IF size_changed THEN update_vertices(r1) ELSE r1
        recreate == needs_recreate(size_changed, format_changed)
    IN IF frame.format \in {"Rgba", "Yuyv"}
         THEN [r2 EXCEPT
                 !.video_texture = IF recreate
                                     THEN [format |-> TextureFormatOf(frame.format),
                                           size |-> fsize]
                                     ELSE @,
                 !.created = IF recreate THEN {"video_texture", "video_bind_group"} ELSE {},
                 !.rewritten = {"video_texture"}]
         ELSE LET uv_width == div_ceil(frame.width, 2)
                  uv_height == div_ceil(frame.height, 2)
              IN [r2 EXCEPT
                    !.nv12_y_texture = IF recreate
                                         THEN [format |-> "R8Unorm", size |-> fsize]
                                         ELSE @,
                    !.nv12_uv_texture = IF recreate
                                          THEN [format |-> "Rg8Unorm",
                                                size |-> <<uv_width, uv_height>>]
                                          ELSE @,
                    !.created = IF recreate
                                  THEN {"nv12_y_texture", "nv12_uv_texture", "nv12_bind_group"}
                                  ELSE {},
                    !.rewritten = {"nv12_y_texture", "nv12_uv_texture"}]

RsUploadTextures ==
    /\ rs.pc = "tex"
    /\ \E fsize \in TexSizes, format \in Formats, color \in ColorInfos :
         rs' = upload_textures(update_color_params(rs, color),
                               [width |-> fsize[1], height |-> fsize[2], format |-> format])
    /\ UNCHANGED notRs

\* RenderState after new(), in a window of any of the sizes, and the calls
\* that move the video quad
ScaleInit ==
    /\ CaptureInit /\ sel = SelOff /\ mj = MjOff
    /\ \E wsize \in WindowSizes : rs = [RsOff EXCEPT !.pc = "scale", !.size = wsize]

ScaleNext ==
    \/ RsResize
    \/ RsSetAspectCorrection
    \/ RsUpdateFrame

ScaleSpec == ScaleInit /\ [][ScaleNext]_vars

\* RenderState after new() and the frames uploaded to it
UploadInit ==
    /\ CaptureInit /\ sel = SelOff /\ mj = MjOff
    /\ rs = [RsOff EXCEPT !.pc = "upload", !.size = <<8, 5>>]

UploadNext == RsUploadFrame

UploadSpec == UploadInit /\ [][UploadNext]_vars

\* RenderState after new(), for a surface format that is sRGB or not, and the
\* frames whose textures and shader parameters it keeps
TexInit ==
    /\ CaptureInit /\ sel = SelOff /\ mj = MjOff
    /\ \E srgb \in BOOLEAN :
         rs = [RsOff EXCEPT !.pc = "tex", !.size = <<8, 5>>,
                            !.output_is_srgb = srgb,
                            !.color_params = color_params_from_info(ColorInfo_default, srgb)]

TexNext == RsUploadTextures

TexSpec == TexInit /\ [][TexNext]_vars

\* select_format run twice on one device
DetSizes == {<<1920, 1080>>, <<640, 480>>}
DetFps == {NoFps, 5992, 6000, 6008}
DetChoicesOf(f) ==
    {c \in ChoicesOf(f) : <<c.width, c.height>> \in DetSizes /\ c.fps \in DetFps}

DetInit ==
    /\ CaptureInit /\ mj = MjOff /\ rs = RsOff
    /\ \E n \in {NoChoice} \cup DetChoicesOf("NV12"),
          y \in {NoChoice} \cup DetChoicesOf("YUYV"),
          m \in {NoChoice} \cup DetChoicesOf("MJPG"),
          cap \in {<<0, 0>>, <<1280, 720>>} :
         sel = [SelOff EXCEPT
                  !.pc = "collect",
                  !.max_size = cap,
                  !.offered = [f \in Fourccs |->
                     IF f = "NV12" THEN n ELSE IF f = "YUYV" THEN y ELSE m]]

DetNext == SelNext \/ SelectAgain

DetSpec == DetInit /\ [][DetNext]_vars

\* ===================================================================== claims
Live(s) == wpc[s] \notin {"unborn", "exited"}

PostRead == {"is_empty", "drop_early", "build", "on_frame", "send", "drain",
             "drop_late", "resend"}

\* C1: a single take_latest_frame made after the N-th buffer (N >= 1, all
\* buildable, no poll before, no buffer read during the call) returns the
\* frame built from the N-th buffer.
C1_TakeReturnsNewest ==
    (/\ hist.tk.done
     /\ hist.tk.fresh
     /\ hist.ncap[hist.tk.sess] = hist.tk.n)
    => hist.tk.result = [seq |-> hist.tk.n]

\* C2: with stats enabled for the whole run and every buffer buildable, after
\* a poll that follows the last captured buffer the drop counter equals the
\* number of captured buffers minus the number of frames returned by
\* take_latest_frame.
C2_DropsAreUnseenFrames ==
    \A s \in Sessions :
        (hist.settled[s] /\ hist.clean[s] /\ hist.allok[s])
        => stats[s].drops = hist.ncap[s] - hist.returned[s]

\* C3: once a buffer has been read the capture thread gets back to the
\* stop-flag check by its own steps alone, whatever the consumer does
\* (FairSpec gives fairness to the thread's steps only).
C3_WorkerNeverBlocked ==
    \A s \in Sessions : (wpc[s] \in PostRead) ~> (wpc[s] = "head")

\* The thread has gone through an iteration with the slot occupied, on a
\* session the consumer never polled.
C3_Witness ==
    \E s \in Sessions :
        /\ ~hist.polled[s]
        /\ hist.ncap[s] >= 2
        /\ Len(rx[s]) = 1
        /\ wpc[s] = "head"

\* C4: stop sets the flag and returns only after the thread has terminated; a
\* later stop call (the one made by Drop) writes nothing and joins nothing;
\* after stop has returned no frame is put into the channel and no stats
\* counter changes (the dropped session's fields are freed, nothing else).
C4_StopJoinsOnce ==
    /\ [](\A s \in Sessions :
            hist.stopped[s] => (stop[s] /\ wpc[s] = "exited" /\ thread[s] = "none"))
    /\ [][ /\ (mpc = "sv_drop" /\ mpc' # mpc)
              => (mpc' = "sv_select" /\ stop' = stop /\ thread' = thread /\ wpc' = wpc)
           /\ \A s \in Sessions :
                hist.stopped[s]
                => \/ rx'[s] = rx[s] /\ stats'[s] = stats[s]
                   \/ /\ mpc = "sv_drop" /\ mloc.cap = s
                      /\ rx'[s] = << >> /\ stats'[s] = CaptureStats_new ]_vars

\* set_video has stopped and dropped a session whose thread had delivered.
C4_Witness ==
    \E s \in Sessions : hist.stopped[s] /\ mpc = "sv_select" /\ nbuf >= 1

\* C5: once the stop flag of a session is set its thread eventually exits,
\* also when the device delivers nothing more.
C5_StopLeadsToExit ==
    \A s \in Sessions : stop[s] ~> (wpc[s] = "exited")

\* C6: at most one capture thread exists at any time, and when a session has
\* been started every earlier session was signalled to stop and its thread
\* has terminated.
C6_OneCaptureThread ==
    /\ Cardinality({s \in Sessions : Live(s)}) <= 1
    /\ \A s, t \in Sessions :
         (s < t /\ t <= nsess) => (stop[s] /\ wpc[s] = "exited")

\* A second session runs after the first was stopped.
C6_Witness ==
    /\ nsess = 2
    /\ wpc[2] = "read"
    /\ hist.stopped[1]

\* C7: after set_video has handled a failed start the application holds no
\* session, no capture thread runs, last_error holds the failure and the
\* application goes on (it can redraw).
C7_FailedStartInactive ==
    hist.failed =>
        /\ video_capture = 0
        /\ \A s \in Sessions : ~Live(s)
        /\ last_error = "video"
        /\ mpc \in {"idle", "ase_enable"}
        /\ (mpc = "idle" => ENABLED Redraw)

\* A start failed after an earlier session had run and been stopped.
C7_Witness ==
    /\ hist.failed
    /\ mpc = "idle"
    /\ \E s \in Sessions : hist.stopped[s]

\* C8: a read error or a frame that cannot be built is absorbed: the step
\* leaves the channel and the frames and drops counters unchanged and takes
\* the thread back to the stop-flag check.
C8_FrameFailureAbsorbed ==
    [][ \A s \in Sessions :
          (\/ wpc[s] = "read" /\ wpc'[s] # "read" /\ hist'.ncap[s] = hist.ncap[s]
           \/ wpc[s] = "build" /\ wpc'[s] # "build" /\ ~wloc[s].buf.ok)
          => /\ wpc'[s] = "head"
             /\ rx'[s] = rx[s]
             /\ stats'[s].frames = stats[s].frames
             /\ stats'[s].drops = stats[s].drops ]_vars

\* With stats on throughout, two buffers were read, one could not be built
\* and was not dropped for a full slot, and the thread is back at the check.
C8_Witness ==
    \E s \in Sessions :
        /\ hist.clean[s] /\ stats[s].enabled
        /\ hist.ncap[s] = 2 /\ ~hist.allok[s]
        /\ stats[s].frames = 1 /\ stats[s].drops = 0
        /\ wpc[s] = "head"

\* C9: take_latest_frame never waits, returns None exactly when it received no
\* frame during the call and otherwise the last frame it received; at most one
\* frame is given to the renderer per redraw tick.
C9_TakeLatest ==
    /\ (mpc = "tlf" => ENABLED TakeLatestFrame)
    /\ hist.tk.done =>
         /\ (hist.tk.result = NoFrame) <=> (hist.tk.got = << >>)
         /\ hist.tk.got # << >>
              => hist.tk.result = [seq |-> hist.tk.got[Len(hist.tk.got)]]
         /\ hist.tk.uploads = (IF hist.tk.got = << >> THEN 0 ELSE 1)

\* One call received two frames and returned the second.
C9_Witness ==
    /\ hist.tk.done
    /\ Len(hist.tk.got) = 2

\* ------------------------------------------------------------------- C10
\* The layout ranks and the precedence the claim states.
C10_Rank(c) ==
    CASE c.fourcc = "NV12" -> 3
      [] c.fourcc = "YUYV" -> 2
      [] c.fourcc = "MJPG" -> 1
      [] OTHER -> 0

C10_Within(a, b) == Abs(FpsOr0(a) - FpsOr0(b)) <= 10

C10_Ranked == sel.pc \in {"try", "done"} /\ sel.ret.kind # "err_io"

C10_Example ==
    (/\ C10_Ranked
     /\ sel.max_size = <<0, 0>>
     /\ sel.offered["NV12"] = [fourcc |-> "NV12", width |-> 1920, height |-> 1080, fps |-> 6000]
     /\ sel.offered["YUYV"] = [fourcc |-> "YUYV", width |-> 1920, height |-> 1080, fps |-> 3000]
     /\ sel.offered["MJPG"] = [fourcc |-> "MJPG", width |-> 1280, height |-> 720, fps |-> 6000])
    => /\ sel.choices[1].fourcc = "NV12"
       /\ sel.choices[1].width = 1920
       /\ sel.choices[1].height = 1080

C11_Fits(c) == c.width <= sel.max_size[1] /\ c.height <= sel.max_size[2]

C11_ExampleOffered ==
    /\ sel.offered["NV12"] = [fourcc |-> "NV12", width |-> 1920, height |-> 1080, fps |-> 6000]
    /\ sel.offered["YUYV"] = [fourcc |-> "YUYV", width |-> 1920, height |-> 1080, fps |-> 3000]
    /\ sel.offered["MJPG"] = [fourcc |-> "MJPG", width |-> 1280, height |-> 720, fps |-> 6000]

\* C11: when a cap is given and a candidate left after the aspect filter fits
\* it, the cap step removes exactly the candidates exceeding the cap in either
\* dimension, before the ranking; when no cap is given or no candidate fits
\* the list is left unchanged.  For the example candidates with cap 1280x720
\* the only candidate left, and the layout and rate selected, is 1280x720
\* MJPG at 60.
C11_CapFilter ==
    /\ []( (/\ C11_ExampleOffered
            /\ sel.max_size = <<1280, 720>>
            /\ sel.pc \in {"sort", "try", "done"}
            /\ sel.ret.kind # "err_io")
           => /\ sel.choices = << [fourcc |-> "MJPG", width |-> 1280, height |-> 720, fps |-> 6000] >>
              /\ sel.ret.kind = "set" => (sel.ret.fourcc = "MJPG" /\ sel.ret.fps = 60) )
    /\ [][ sel.pc = "cap" =>
             LET before == sel.choices
                 after == sel'.choices
                 fitting == {i \in 1..Len(before) : C11_Fits(before[i])}
             IN /\ sel'.pc = "sort"
                /\ IF sel.max_size # <<0, 0>> /\ fitting # {}
                     THEN /\ Len(after) = Cardinality(fitting)
                          /\ \A i \in 1..Len(after) : C11_Fits(after[i])
                          /\ \A i \in fitting : \E k \in 1..Len(after) : after[k] = before[i]
                     ELSE after = before ]_vars

\* The cap 1920x720 has removed two 1920x1080 candidates, which exceed it in
\* height only, and left the 1280x720 one.
C11_Witness ==
    /\ sel.pc = "sort"
    /\ sel.max_size = <<1920, 720>>
    /\ Cardinality({f \in Fourccs : sel.offered[f].height = 1080}) = 2
    /\ Len(sel.choices) = 1
    /\ sel.choices[1].height = 720

\* ------------------------------------------------------------------- C12
\* |c.width / c.height - m.width / m.height| < 0.02
C12_Near(c, m) ==
    Abs(c.width * m.height - m.width * c.height) * 50 < c.height * m.height

\* C12: the aspect step keeps exactly the candidates whose width/height ratio
\* is within 0.02 of the ratio of a candidate of maximum area, in their order;
\* that candidate is kept, so the list is never emptied, and an empty list
\* stays empty.
C12_AspectFilter ==
    [][ sel.pc = "aspect" =>
          LET before == sel.choices
              after == sel'.choices
              top == {i \in 1..Len(before) :
                        \A j \in 1..Len(before) : Area(before[j]) <= Area(before[i])}
          IN /\ sel'.pc = "cap"
             /\ before = << >> => after = << >>
             /\ before # << >> =>
                  \E m \in top :
                     /\ after = SelectSeq(before, LAMBDA c : C12_Near(c, before[m]))
                     /\ \E k \in 1..Len(after) : after[k] = before[m] ]_vars

\* Of three candidates the aspect step kept the two 16:9 ones and removed the
\* 4:3 one.
C12_Witness ==
    /\ sel.pc = "cap"
    /\ \A f \in Fourccs : sel.offered[f] # NoChoice
    /\ \E f \in Fourccs : sel.offered[f].height = 480
    /\ Len(sel.choices) = 2
    /\ sel.choices[1].height = 1080
    /\ sel.choices[2].height = 720

\* ------------------------------------------------------------------- C13
\* r is fps (hundredths) rounded to the nearest integer, and not below 1.
C13_Rounded(fps, r) ==
    IF fps = NoFps THEN r = NoFps
    ELSE IF fps < 50 THEN r = 1
    ELSE r >= 1 /\ Abs(100 * r - fps) <= 50

\* C13: the candidates are asked of the device in ranked order, one at a
\* time; none is asked after one was accepted; when select_format returns a
\* format the device has set, it is for the first candidate the device
\* accepted (its layout), every candidate ranked before it was refused, and
\* the rate returned is the candidate's fps rounded to the nearest integer,
\* never below 1, and absent when the candidate has none.
C13_FirstAccepted ==
    /\ Len(sel.answers) = sel.tried
    /\ sel.tried <= Len(sel.choices)
    /\ \A k \in 1..Len(sel.answers) :
         sel.answers[k] => (k = Len(sel.answers) /\ sel.pc = "done" /\ sel.ret.kind = "set")
    /\ sel.ret.kind = "set" =>
         /\ sel.tried >= 1
         /\ sel.answers[sel.tried]
         /\ sel.ret.fourcc = sel.choices[sel.tried].fourcc
         /\ C13_Rounded(sel.choices[sel.tried].fps, sel.ret.fps)

\* The device refused the first candidate and accepted the second, whose
\* 0.25 fps was returned as 1.
C13_Witness ==
    /\ sel.pc = "done"
    /\ sel.answers = <<FALSE, TRUE>>
    /\ Len(sel.choices) = 3
    /\ sel.choices[2].fps = 25
    /\ sel.ret.fps = 1

\* ------------------------------------------------------------------- C14
C14_Known == {"NV12", "YUYV", "MJPG"}

C14_NoneAccepted ==
    /\ sel.pc = "done"
    /\ sel.ret.kind # "err_io"
    /\ \A k \in 1..Len(sel.answers) : ~sel.answers[k]

\* C14: when the device accepted no candidate (or there was none),
\* select_format returns the device's current format, with no fps, if its
\* layout is NV12, YUYV or MJPG, and fails with the unsupported-format error
\* otherwise; a current format is returned in no other case.
C14_Fallback ==
    /\ C14_NoneAccepted =>
         /\ sel.tried = Len(sel.choices)
         /\ IF sel.current.fourcc \in C14_Known
              THEN sel.ret = [kind |-> "current", fourcc |-> sel.current.fourcc,
                              width |-> sel.current.width, height |-> sel.current.height,
                              fps |-> NoFps]
              ELSE sel.ret.kind = "err_unsupported"
    /\ sel.ret.kind \in {"current", "err_unsupported"} => C14_NoneAccepted
    /\ sel.ret.kind = "current" => sel.ret.fourcc \in C14_Known

\* All three candidates were refused and the current MJPG format was returned.
C14_Witness ==
    /\ sel.pc = "done"
    /\ sel.answers = <<FALSE, FALSE, FALSE>>
    /\ sel.ret.kind = "current"
    /\ sel.ret.fourcc = "MJPG"
    /\ sel.ret.width = 640

\* ------------------------------------------------------------------- C15
C15_BothDone == sel.pc = "done" /\ sel.prev.run

\* The device gave the second run the answers it gave the first.
C15_SameAnswers ==
    /\ sel.answers = sel.prev.answers
    /\ (sel.ret.kind = "err_io") <=> (sel.prev.ret.kind = "err_io")
    /\ sel.current = sel.prev.current

C16_Priority(d) == CHOOSE i \in 1..4 : <<"nvjpegdec", "vaapijpegdec", "v4l2jpegdec", "qsvjpegdec">>[i] = d

\* C16: the decoder back-ends are tried in the order nvjpegdec, vaapijpegdec,
\* v4l2jpegdec, qsvjpegdec, each one's variants in their order; the first
\* variant that runs is used and nothing is launched after it; with GStreamer
\* initialised, the thread decodes in software only when every variant of
\* every installed back-end was launched and failed.
C16_AllBackendsTried ==
    /\ \A i, j \in 1..Len(mj.launched) :
         i < j => C16_Priority(mj.launched[i][1]) <= C16_Priority(mj.launched[j][1])
    /\ mj.path = "gst" => mj.pc = "running"
    /\ (mj.path = "software" /\ mj.gst_init) =>
         \A d \in mj.installed :
            \A k \in 1..Len(mjpeg_pipeline_variants(d, mj.postproc)) :
               \E i \in 1..Len(mj.launched) :
                  mj.launched[i] = <<d, mjpeg_pipeline_variants(d, mj.postproc)[k]>>

\* ------------------------------------------------------------------- C17
\* C17: every frame of an MJPG session, decoded by the pipeline or on the
\* capture thread, carries range Full at every width unless the platform
\* reported a range for it.
C17_MjpgFullRange ==
    (mj.frame # NoMjFrame /\ mj.frame.reported = "Unknown") => mj.frame.color.range = "Full"

\* ------------------------------------------------------------------- C18
\* a = b for quotients in lowest terms; the cross products are those of
\* numbers below 2^11
C18_RatEq(a, b) == a = b

\* The scale derived from the window size, the video size and the flag:
\* window aspect = ww / wh, video aspect = vw / vh.
C18_Derived ==
    LET ww == rs.size[1]
        wh == rs.size[2]
        vw == rs.video_size[1]
        vh == rs.video_size[2]
    IN IF ~rs.aspect_correct THEN [sx |-> <<1, 1>>, sy |-> <<1, 1>>]
       ELSE IF ww * vh >= vw * wh
         THEN [sx |-> Frac(vw * wh, vh * ww), sy |-> <<1, 1>>]
         ELSE [sx |-> <<1, 1>>, sy |-> Frac(ww * vh, wh * vw)]

C18_ScaleIsDerived ==
    /\ C18_RatEq(rs.vertex_scale.sx, C18_Derived.sx)
    /\ C18_RatEq(rs.vertex_scale.sy, C18_Derived.sy)

\* C18 as stated: after any sequence of resize, update_frame and
\* set_aspect_correction calls the scale last written to the vertex buffer is
\* the one derived from the window size, the video size and the flag.
C18_ScaleAfterAnyCalls ==
    (rs.pc = "scale" /\ rs.last # "none") => C18_ScaleIsDerived

\* C18, amended: once one of the calls has written the vertices (a resize to a
\* non-zero size, a frame of another size than the last, a change of the
\* flag), the scale in the vertex buffer is the derived one after every
\* further sequence of calls.
C18_ScaleOnceWritten ==
    (rs.pc = "scale" /\ rs.written) => C18_ScaleIsDerived

\* With the flag switched back on, a 16:9 video sits letterboxed in a
\* portrait window.
C18_Witness ==
    /\ rs.pc = "scale"
    /\ rs.written
    /\ rs.last = "set_aspect_correction"
    /\ rs.aspect_correct
    /\ rs.size = <<600, 800>>
    /\ rs.video_size = <<1920, 1080>>
    /\ rs.vertex_scale.sx = <<1, 1>>
    /\ rs.vertex_scale.sy # <<1, 1>>

\* ------------------------------------------------------------------- C19
\* the calls of the last upload that repacked data shorter than
\* bytes_per_row x height
C19_ShortRepacks ==
    {i \in DOMAIN rs.calls :
        /\ rs.calls[i].repacked
        /\ Len(rs.calls[i].data) < rs.calls[i].bytes_per_row * rs.calls[i].height}

\* offset of row y, column x in the source, and whether the source has it
C19_Src(c, y, x) == y * c.bytes_per_row + x
C19_InSrc(c, y, x) == x < c.bytes_per_row /\ C19_Src(c, y, x) < Len(c.data)

C19_Sized(c) == Len(c.gpu) = c.padded_stride * c.height

C19_Placed(c) ==
    \A y \in 0..(c.height - 1), x \in 0..(c.padded_stride - 1) :
        C19_InSrc(c, y, x) =>
            c.gpu[y * c.padded_stride + x + 1] = c.data[C19_Src(c, y, x) + 1]

C19_ZeroElsewhere(c) ==
    \A y \in 0..(c.height - 1), x \in 0..(c.padded_stride - 1) :
        ~C19_InSrc(c, y, x) => c.gpu[y * c.padded_stride + x + 1] = 0

\* C19: over every sequence of uploads, a repack of a buffer shorter than
\* stride x height hands the GPU exactly padded_stride x height bytes, with
\* every source byte at its row position and 0 in every byte the source does
\* not have: missing rows, the tail of a partial row, row padding.
C19_RepackZeroFilled ==
    \A i \in C19_ShortRepacks :
        /\ C19_Sized(rs.calls[i])
        /\ C19_Placed(rs.calls[i])
        /\ C19_ZeroElsewhere(rs.calls[i])

\* ------------------------------------------------------------------- C20
C20_Inside(range, len) == 0 <= range[1] /\ range[1] <= range[2] /\ range[2] <= len

\* C20: whatever the frame descriptor and the payload length, every range
\* upload_frame slices out of the payload (the NV12 luma and chroma planes)
\* and every range write_texture_padded reads from the data it is given (the
\* rows of the repack, or the whole of it when it is passed through) lies
\* inside the buffer it is taken from.
C20_NoReadPastEnd ==
    /\ \A range \in rs.slices : C20_Inside(range, rs.payload_len)
    /\ \A i \in DOMAIN rs.calls :
         \A range \in rs.calls[i].reads : C20_Inside(range, Len(rs.calls[i].data))

\* A truncated NV12 frame: the payload ends inside the second luma row, the
\* repack copies that row up to the end of the payload and the chroma plane
\* is the empty slice at the end.
C20_Witness ==
    /\ rs.pc = "upload"
    /\ rs.video_format = "Nv12"
    /\ rs.payload_len = 5
    /\ Len(rs.calls) = 2
    /\ rs.calls[1].bytes_per_row = 3
    /\ <<3, 5>> \in rs.calls[1].reads
    /\ rs.slices = {<<0, 5>>, <<5, 5>>}
    /\ rs.calls[2].data = <<>>

\* ------------------------------------------------------------------- C21
C21_Changed == rs.prev.size # rs.video_size \/ rs.prev.format # rs.video_format

C21_ResourcesOf(format) ==
    IF format = "Nv12" THEN {"nv12_y_texture", "nv12_uv_texture", "nv12_bind_group"}
    ELSE {"video_texture", "video_bind_group"}

C21_TexturesOf(format) ==
    IF format = "Nv12" THEN {"nv12_y_texture", "nv12_uv_texture"} ELSE {"video_texture"}

\* C21: an upload_frame that follows another creates the textures and the bind
\* group of the frame's format exactly when the frame's size or format differs
\* from the previous frame's, creates nothing when both are equal, and in
\* either case writes the textures of the frame's format and no other.
C21_RecreateOnChange ==
    (rs.pc = "tex" /\ rs.prev.uploaded) =>
        /\ rs.created = (IF C21_Changed THEN C21_ResourcesOf(rs.video_format) ELSE {})
        /\ rs.rewritten = C21_TexturesOf(rs.video_format)

\* A Yuyv frame after an Rgba frame of the same size: the format alone changed
\* and video_texture was created anew as Rg8Unorm.
C21_Witness ==
    /\ rs.pc = "tex"
    /\ rs.prev.uploaded
    /\ rs.prev.format = "Rgba"
    /\ rs.video_format = "Yuyv"
    /\ rs.prev.size = rs.video_size
    /\ rs.created = {"video_texture", "video_bind_group"}
    /\ rs.video_texture = [format |-> "Rg8Unorm", size |-> rs.video_size]

\* ------------------------------------------------------------------- C22
C22_CountersUnchanged(s) ==
    /\ stats'[s].frames = stats[s].frames
    /\ stats'[s].drops = stats[s].drops
    /\ stats'[s].decode_us = stats[s].decode_us

C23_EnableDone ==
    /\ mpc = "ase_reset" /\ mpc' = "idle"

C23_ResetAtEnable ==
    C23_EnableDone =>
        /\ stats'[video_capture].frames = 0
        /\ stats'[video_capture].drops = 0
        /\ stats'[video_capture].decode_us = 0

\* apply_stats_enabled with stats not shown: the flag is cleared
C23_DisableKeeps ==
    (mpc = "ase_enable" /\ mpc' = "idle" /\ video_capture # 0 /\ ~show_stats) =>
        /\ ~stats'[video_capture].enabled
        /\ C22_CountersUnchanged(video_capture)

\* what the thread counts once the reset is done is a buffer it read after
\* stats were switched on
C23_CountsOnlyLater ==
    \A s \in Sessions :
        (Worker(s) /\ ~C22_CountersUnchanged(s) /\ ~(mpc = "ase_reset" /\ video_capture = s))
            => ~wloc[s].pre

C24_FailedRefresh == devs'.last_refresh # devs.last_refresh /\ devs'.result = "err"

C24_StateKept ==
    /\ devs'.video_devices = devs.video_devices
    /\ selected_video' = selected_video
    /\ video_capture' = video_capture
    /\ UNCHANGED <<sessVars, workerVars>>
    /\ mpc' = "idle"

\* C24: a failed re-enumeration leaves the device list, the selection and the
\* running session as they were, leaves the application running, and puts the
\* failure into last_error.
C24_RefreshFailureSurfaced ==
    [][C24_FailedRefresh => (C24_StateKept /\ last_error' = "video")]_vars

\* ------------------------------------------------------------------- C25
C25_Shared(i) == \E j \in DOMAIN devs.raw : j # i /\ devs.raw[j][2] = devs.raw[i][2]

\* C25: in the returned list a device whose reported name another listed
\* device shares is shown as that name with the last component of its own
\* path as suffix, a device with a name of its own keeps the name unchanged,
\* and every id is the device's path.
C25_SharedNamesSuffixed ==
    devs.pc = "listed" =>
        /\ Len(devs.out) = Len(devs.raw)
        /\ \A i \in DOMAIN devs.raw :
             /\ devs.out[i].id = devs.raw[i][1]
             /\ devs.out[i].name.name = devs.raw[i][2]
             /\ devs.out[i].name.suffix =
                    (IF C25_Shared(i) THEN devs.raw[i][1][Len(devs.raw[i][1])] ELSE "")

\* ------------------------------------------------------------------- C26
\* C26: every frame a capture thread gives to the channel has uv_stride > 0
\* exactly when its format is Nv12; Yuyv and Rgba frames have uv_stride = 0.
C26_UvStrideIffNv12 ==
    fr.sent # NoSent => ((fr.sent.uv_stride > 0) <=> (fr.sent.format = "Nv12"))

\* An NV12 frame of the v4l thread whose driver reported no stride: the chroma
\* stride is the width.
C26_Witness ==
    /\ fr.path = "v4l"
    /\ fr.sent.format = "Nv12"
    /\ fr.sent.uv_stride = fr.sent.width
    /\ fr.sent.width = 1280

\* ------------------------------------------------------------------- C27
C27_Default(width) ==
    [matrix |-> IF width >= 1280 THEN "Bt709" ELSE "Bt601", range |-> "Limited"]

\* the platform gave no colorimetry for the frame sent: the v4l and the Media
\* Foundation threads never ask for one, the caps of the GStreamer sample
\* carried neither a range nor a matrix
C27_NoColorimetry ==
    /\ fr.sent # NoSent
    /\ \/ fr.path \in {"v4l", "mf"}
       \/ fr.path = "gst" /\ fr.reported = [matrix |-> "Unknown", range |-> "Unknown"]

\* C27 as stated: with no colorimetry from the platform the frame's ColorInfo
\* is the resolution default, Bt709 from width 1280 and Bt601 up to 1279, with
\* range Limited.
C27_DefaultLimited ==
    C27_NoColorimetry => fr.sent.color = C27_Default(fr.sent.width)

\* C27, amended: with no colorimetry from the platform a frame of a raw mode
\* (YUYV, NV12, RGB32) built by the v4l or the Media Foundation thread has the
\* resolution default with range Limited; a frame of the GStreamer thread,
\* whose source is MJPG, has the matrix of the resolution default and range
\* Full.
C27_DefaultByPath ==
    C27_NoColorimetry =>
        /\ (fr.path \in {"v4l", "mf"} /\ fr.kind # "MJPG")
              => fr.sent.color = C27_Default(fr.sent.width)
        /\ fr.path = "gst"
              => fr.sent.color = [C27_Default(fr.sent.width) EXCEPT !.range = "Full"]

\* A YUYV frame 1280 wide from the Media Foundation thread: Bt709, Limited.
C27_Witness ==
    /\ fr.path = "mf"
    /\ fr.sent.format = "Yuyv"
    /\ fr.sent.width = 1280
    /\ fr.sent.color = [matrix |-> "Bt709", range |-> "Limited"]

\* ------------------------------------------------------------------- C28
\* Kr, Kb of a matrix in units of 10^-4
C28_Kr(matrix) == CASE matrix = "Bt601" -> 2990 [] matrix = "Bt709" -> 2126 [] OTHER -> 2627
C28_Kb(matrix) == CASE matrix = "Bt601" -> 1140 [] matrix = "Bt709" -> 722 [] OTHER -> 593
C28_Kg(matrix) == 10000 - C28_Kr(matrix) - C28_Kb(matrix)

RECURSIVE C28_Pow10(_)
C28_Pow10(k) == IF k = 0 THEN 1 ELSE 10 * C28_Pow10(k - 1)

\* the first `digits` decimals of r / d, for 0 <= r < d, as a whole number
RECURSIVE C28_Decimals(_, _, _)
C28_Decimals(r, d, digits) ==
    IF digits = 0 THEN 0
    ELSE ((r * 10) \div d) * C28_Pow10(digits - 1) + C28_Decimals((r * 10) % d, d, digits - 1)

\* n / d in units of 10^-7, rounded down
C28_Quot(n, d) == (n \div d) * 10000000 + C28_Decimals(n % d, d, 7)

\* x * 255 / 224 for x in units of 10^-7, rounded down: the scale of the
\* chroma excursion 224 / 255 of limited range
C28_Limited(x) ==
    LET hi == x \div 10000
        lo == x % 10000
    IN ((hi * 255) \div 224) * 10000 + ((((hi * 255) % 224) * 10000 + lo * 255) \div 224)

C28_ForRange(x, range) == IF range = "Limited" THEN C28_Limited(x) ELSE x

\* the closed forms for full range: 2(1 - Kr), 2 Kb (1 - Kb) / Kg,
\* 2 Kr (1 - Kr) / Kg, 2(1 - Kb)
C28_Closed(matrix, range) ==
    LET kr == C28_Kr(matrix)
        kb == C28_Kb(matrix)
        kg == C28_Kg(matrix)
    IN [ m_rv |-> C28_ForRange(2 * (10000 - kr) * 1000, range),
         m_gu |-> C28_ForRange(C28_Quot(2 * kb * (10000 - kb), kg * 10000), range),
         m_gv |-> C28_ForRange(C28_Quot(2 * kr * (10000 - kr), kg * 10000), range),
         m_bu |-> C28_ForRange(2 * (10000 - kb) * 1000, range) ]

C28_Abs(x) == IF x < 0 THEN 0 - x ELSE x

\* |a - b| <= tol, all in units of 10^-7; the closed forms are rounded down,
\* which moves them by less than 2 units
C28_Within(a, b, tol) == C28_Abs(a - b) <= tol

C28_Luma ==
    /\ rs.color.range = "Limited" =>
          /\ C28_Within(rs.color_params.y_offset, 0 - C28_Quot(16, 255), 10)
          /\ C28_Within(rs.color_params.y_scale, C28_Quot(255, 219), 10)
    /\ rs.color.range = "Full" =>
          /\ rs.color_params.y_offset = 0
          /\ rs.color_params.y_scale = 10000000

C28_Chroma(tol) ==
    LET c == C28_Closed(rs.color.matrix, rs.color.range) IN
    /\ C28_Within(rs.color_params.m_rv, c.m_rv, tol)
    /\ C28_Within(rs.color_params.m_gu, c.m_gu, tol)
    /\ C28_Within(rs.color_params.m_gv, c.m_gv, tol)
    /\ C28_Within(rs.color_params.m_bu, c.m_bu, tol)

\* C28 as stated: for each (matrix, range) the luma offset and scale are those
\* of the range and the four chroma coefficients are within 10^-6 of the
\* closed forms of the matrix scaled for the range.
C28_CoefficientsExact ==
    (rs.pc = "tex" /\ rs.color # NoColor) => (C28_Luma /\ C28_Chroma(10))

\* C28, amended: the luma offset and scale are those of the range (within
\* 10^-6) and the chroma coefficients are within 10^-3 of the closed forms
\* of the matrix scaled for the range.
C28_CoefficientsRounded ==
    (rs.pc = "tex" /\ rs.color # NoColor) => (C28_Luma /\ C28_Chroma(10000))

\* The parameters of a frame with Bt2020, limited range
C28_Witness ==
    /\ rs.pc = "tex"
    /\ rs.color = [matrix |-> "Bt2020", range |-> "Limited"]
    /\ rs.color_params.m_rv = 16780000
    /\ rs.color_params.y_scale = 11643836

\* --------------------------------------------------- best_choice_for_fourcc
\* A frame interval is numerator / denominator seconds, <<numerator,
\* denominator>>.  A frame rate here is the exact quotient denominator /
\* numerator in lowest terms, <<frames, seconds>>; NoneFps is Option::None.
NoneFps == <<0, 0>>
ZeroFps == <<0, 1>>
Discrete(f) == [kind |-> "Discrete", min |-> f, max |-> f]
Stepwise(min, max) == [kind |-> "Stepwise", min |-> min, max |-> max]

\* what enum_frameintervals answers for one size
IntervalReports ==
    { [ok |-> FALSE, list |-> << >>],
      [ok |-> TRUE, list |-> <<Discrete(<<0, 1>>)>>],
      [ok |-> TRUE, list |-> <<Discrete(<<1, 30>>), Discrete(<<1, 60>>)>>],
      [ok |-> TRUE, list |-> <<Discrete(<<0, 1>>), Discrete(<<1, 30>>)>>],
      [ok |-> TRUE, list |-> <<Stepwise(<<1, 60>>, <<1, 5>>)>>],
      [ok |-> TRUE, list |-> <<Discrete(<<1001, 60000>>), Discrete(<<1, 30>>)>>] }

BestSizes == {<<1920, 1080>>, <<1440, 1440>>, <<1280, 720>>}
MaxSizes == 3
SizeLists == UNION {[1..n -> BestSizes] : n \in 0..MaxSizes}

\* fps > b on f64
FpsGreater(a, b) == a[1] * b[2] > b[1] * a[2]

\* fps.unwrap_or(0.0)
unwrap_or_0(fps) == IF fps = NoneFps THEN ZeroFps ELSE fps

\* Mutant: a stepwise range counts with its slowest interval.
RECURSIVE max_fpsSlowest_loop(_, _, _)
max_fpsSlowest_loop(list, i, best) ==
    IF i > Len(list) THEN best
    ELSE LET frac == list[i].max IN
         IF frac[1] = 0 THEN max_fpsSlowest_loop(list, i + 1, best)
         ELSE LET fps == Frac(frac[2], frac[1]) IN
              max_fpsSlowest_loop(list, i + 1,
                  IF best = NoneFps \/ FpsGreater(fps, best) THEN fps ELSE best)

max_fpsSlowest(report) ==
    IF ~report.ok THEN NoneFps ELSE max_fpsSlowest_loop(report.list, 1, NoneFps)

RECURSIVE max_fps_loop(_, _, _)
max_fps_loop(list, i, best) ==
    IF i > Len(list) THEN best
    ELSE LET frac == list[i].min IN       \* Discrete(f) => f, Stepwise(s) => s.min
         IF frac[1] = 0 THEN max_fps_loop(list, i + 1, best)
         ELSE LET fps == Frac(frac[2], frac[1]) IN
              max_fps_loop(list, i + 1,
                  IF best = NoneFps \/ FpsGreater(fps, best) THEN fps ELSE best)

max_fps(report) ==
    IF ~report.ok THEN NoneFps ELSE max_fps_loop(report.list, 1, NoneFps)

NoBest == [fourcc |-> "none", width |-> 0, height |-> 0, fps |-> NoneFps]

\* `better` of the loop body
better(best, width, height, fps) ==
    IF best = NoBest THEN TRUE
    ELSE LET area == width * height
             cur_area == best.width * best.height
         IN IF area # cur_area THEN area > cur_area
            ELSE FpsGreater(unwrap_or_0(fps), unwrap_or_0(best.fps))

\* dev.enum_framesizes(fourcc).ok()?; sizes is the enumeration with every
\* entry's to_discrete() in place, reports is history
BestEnumFramesizes ==
    /\ sel.pc = "enum"
    /\ \/ sel' = [sel EXCEPT !.pc = "done", !.ok = FALSE]
       \/ \E sizes \in SizeLists : sel' = [sel EXCEPT !.pc = "sizes", !.sizes = sizes, !.i = 1]
    /\ UNCHANGED <<capVars, mj, rs>>

\* one iteration of `for d in size.size.to_discrete()`
BestSize ==
    /\ sel.pc = "sizes"
    /\ sel.i <= Len(sel.sizes)
    /\ \E report \in IntervalReports :
         LET d == sel.sizes[sel.i]
             fps == max_fps(report)
         IN sel' = [sel EXCEPT
                      !.i = @ + 1,
                      !.reports = Append(@, report),
                      !.best = IF better(@, d[1], d[2], fps)
                                 THEN [fourcc |-> sel.fourcc, width |-> d[1],
                                       height |-> d[2], fps |-> fps]
                                 ELSE @]
    /\ UNCHANGED <<capVars, mj, rs>>

BestReturn ==
    /\ sel.pc = "sizes"
    /\ sel.i > Len(sel.sizes)
    /\ sel' = [sel EXCEPT !.pc = "done"]
    /\ UNCHANGED <<capVars, mj, rs>>

\* best_choice_for_fourcc for each layout, over every enumeration of the
\* bounded sets
BestInit ==
    /\ CaptureInit /\ mj = MjOff /\ rs = RsOff
    /\ \E fourcc \in Fourccs :
         sel = [pc |-> "enum", fourcc |-> fourcc, ok |-> TRUE, sizes |-> << >>,
                i |-> 0, reports |-> << >>, best |-> NoBest]

BestNext ==
    \/ BestEnumFramesizes
    \/ BestSize
    \/ BestReturn

BestSpec == BestInit /\ [][BestNext]_vars

\* ------------------------------------------------------------------- C29
\* the rates of the reported intervals of a size, numerator 0 left out; a
\* stepwise range counts with its fastest interval
C29_Rates(report) ==
    IF ~report.ok THEN {}
    ELSE {Frac(report.list[k].min[2], report.list[k].min[1]) :
             k \in {j \in 1..Len(report.list) : report.list[j].min[1] # 0}}

\* rate a is at least rate b
C29_Geq(a, b) == a[1] * b[2] >= b[1] * a[2]

\* the frame rate of a size: the highest of its rates, none if it has none
C29_Rate(report) ==
    IF C29_Rates(report) = {} THEN NoneFps
    ELSE CHOOSE r \in C29_Rates(report) : \A q \in C29_Rates(report) : C29_Geq(r, q)

C29_Area(size) == size[1] * size[2]

C29_Or0(fps) == IF fps = NoneFps THEN ZeroFps ELSE fps

\* C29: when the sizes of a layout were enumerated and there is at least one,
\* the candidate kept is of that layout, has a size of maximum area among the
\* enumerated sizes and, among the sizes of that area, the highest frame
\* rate, the frame rate of a size being the highest rate over its reported
\* intervals with numerator 0 ignored.
C29_BestKept ==
    (sel.pc = "done" /\ sel.ok /\ Len(sel.sizes) > 0) =>
        /\ sel.best.fourcc = sel.fourcc
        /\ \E k \in 1..Len(sel.sizes) :
             /\ sel.sizes[k] = <<sel.best.width, sel.best.height>>
             /\ sel.best.fps = C29_Rate(sel.reports[k])
             /\ \A j \in 1..Len(sel.sizes) :
                  /\ C29_Area(sel.sizes[j]) <= C29_Area(sel.sizes[k])
                  /\ C29_Area(sel.sizes[j]) = C29_Area(sel.sizes[k]) =>
                        C29_Geq(C29_Or0(C29_Rate(sel.reports[k])),
                                C29_Or0(C29_Rate(sel.reports[j])))

\* Two sizes of the largest area and a smaller one: the first has a stepwise
\* range, the second is faster and is kept.
C29_Witness ==
    /\ sel.pc = "done" /\ sel.ok
    /\ sel.sizes = <<<<1920, 1080>>, <<1280, 720>>, <<1440, 1440>>>>
    /\ sel.reports[1] = [ok |-> TRUE, list |-> <<Discrete(<<0, 1>>), Discrete(<<1, 30>>)>>]
    /\ sel.reports[2] = [ok |-> TRUE, list |-> <<Discrete(<<1, 30>>), Discrete(<<1, 60>>)>>]
    /\ sel.reports[3] = [ok |-> TRUE, list |-> <<Stepwise(<<1, 60>>, <<1, 5>>)>>]
    /\ sel.best = [fourcc |-> "YUYV", width |-> 1440, height |-> 1440, fps |-> <<60, 1>>]

\* ------------------------------------------------------------------ pixel
clamp(v) == IF v < 0 THEN 0 ELSE IF v > 255 THEN 255 ELSE v

\* x >> 8 on i32 is an arithmetic shift: the quotient rounded down
Shr8(x) == x \div 256

\* Mutant: the rounding term 128 is left out.
yuv_to_rgbTruncated(y, u, v) ==
    LET c == y - 16
        d == u - 128
        e == v - 128
    IN << clamp(Shr8(298 * c + 409 * e)),
          clamp(Shr8(298 * c - 100 * d - 208 * e)),
          clamp(Shr8(298 * c + 516 * d)) >>

yuv_to_rgb(y, u, v) ==
    LET c == y - 16
        d == u - 128
        e == v - 128
    IN << clamp(Shr8(298 * c + 409 * e + 128)),
          clamp(Shr8(298 * c - 100 * d - 208 * e + 128)),
          clamp(Shr8(298 * c + 516 * d + 128)) >>

\* the bytes of a slice from 0-based offset `from` on
From(src, from) == SubSeq(src, from + 1, Len(src))

\* for x in (0..w).step_by(2): the eight bytes written for each pair, in the
\* order of di
RECURSIVE yuyv_row(_, _, _)
yuyv_row(row, w, x) ==
    IF x >= w THEN << >>
    ELSE LET i == x * 2
             y0 == row[i + 1]
             u == row[i + 2]
             y1 == row[i + 3]
             v == row[i + 4]
             p0 == yuv_to_rgb(y0, u, v)
             p1 == yuv_to_rgb(y1, u, v)
         IN <<p0[1], p0[2], p0[3], 255, p1[1], p1[2], p1[3], 255>> \o yuyv_row(row, w, x + 2)

RECURSIVE yuyv_rows(_, _, _, _, _)
yuyv_rows(width, height, stride, src, y) ==
    IF y >= height THEN << >>
    ELSE yuyv_row(From(src, y * stride), width, 0) \o yuyv_rows(width, height, stride, src, y + 1)

\* yuyv_to_rgba for an even width: out is filled from its start to its end
yuyv_to_rgba(width, height, stride, src) == yuyv_rows(width, height, stride, src, 0)

\* for (x, &yv) in y_row[..w].iter().enumerate()
RECURSIVE nv12_row(_, _, _, _)
nv12_row(y_row, uv_row, w, x) ==
    IF x >= w THEN << >>
    ELSE LET yv == y_row[x + 1]
             uv_i == (x \div 2) * 2
             u == uv_row[uv_i + 1]
             v == uv_row[uv_i + 2]
             rgb == yuv_to_rgb(yv, u, v)
         IN <<rgb[1], rgb[2], rgb[3], 255>> \o nv12_row(y_row, uv_row, w, x + 1)

RECURSIVE nv12_rows(_, _, _, _, _, _)
nv12_rows(width, height, y_stride, uv_stride, src, y) ==
    IF y >= height THEN << >>
    ELSE LET y_plane == SubSeq(src, 1, y_stride * height)
             uv_plane == From(src, y_stride * height)
         IN nv12_row(From(y_plane, y * y_stride), From(uv_plane, (y \div 2) * uv_stride), width, 0)
              \o nv12_rows(width, height, y_stride, uv_stride, src, y + 1)

nv12_to_rgba(width, height, y_stride, uv_stride, src) ==
    nv12_rows(width, height, y_stride, uv_stride, src, 0)

\* The buffers converted: one pair and one 2x2 block over every first luma,
\* and two rows of two pairs / four rows of two blocks with padded strides.
Lumas == 0..255
LumaSamples == {0, 16, 128, 235, 255}
ChromaSamples == {0, 127, 128, 129, 255}
ChromaPairs == {<<128, 128>>, <<64, 192>>, <<255, 0>>}

YuyvBuffers ==
    { [kind |-> "Yuyv", width |-> 2, height |-> 1, stride |-> 4, uv_stride |-> 0,
       src |-> <<y0, u, y1, v>>] :
         y0 \in Lumas, y1 \in LumaSamples, u \in ChromaSamples, v \in ChromaSamples }
    \cup
    { [kind |-> "Yuyv", width |-> 4, height |-> 2, stride |-> 10, uv_stride |-> 0,
       src |-> <<128, a[1], 16, a[2], 235, b[1], 128, b[2], 0, 0,
                 128, c[1], 16, c[2], 235, d[1], 128, d[2], 0, 0>>] :
         a \in ChromaPairs, b \in ChromaPairs, c \in ChromaPairs, d \in ChromaPairs }

Nv12Buffers ==
    { [kind |-> "Nv12", width |-> 2, height |-> 2, stride |-> 2, uv_stride |-> 2,
       src |-> <<y0, y1, y1, y0, u, v>>] :
         y0 \in Lumas, y1 \in LumaSamples, u \in ChromaSamples, v \in ChromaSamples }
    \cup
    { [kind |-> "Nv12", width |-> 4, height |-> 4, stride |-> 5, uv_stride |-> 6,
       src |-> <<128, 16, 235, 128, 0,   16, 128, 128, 235, 0,
                 235, 128, 16, 128, 0,   128, 235, 128, 16, 0,
                 a[1], a[2], b[1], b[2], 0, 0,
                 c[1], c[2], d[1], d[2], 0, 0>>] :
         a \in ChromaPairs, b \in ChromaPairs, c \in ChromaPairs, d \in ChromaPairs }

PixYuyvToRgba ==
    /\ fr.pc = "convert"
    /\ fr.kind = "Yuyv"
    /\ fr' = [fr EXCEPT !.pc = "converted",
                        !.out = yuyv_to_rgba(fr.width, fr.height, fr.stride, fr.src)]
    /\ UNCHANGED notFr

PixNv12ToRgba ==
    /\ fr.pc = "convert"
    /\ fr.kind = "Nv12"
    /\ fr' = [fr EXCEPT !.pc = "converted",
                        !.out = nv12_to_rgba(fr.width, fr.height, fr.stride, fr.uv_stride, fr.src)]
    /\ UNCHANGED notFr

\* for x in 0..w: the four bytes written for each pixel, in the order of di
RECURSIVE bgra_row(_, _, _)
bgra_row(row, w, x) ==
    IF x >= w THEN << >>
    ELSE LET i == x * 4
         IN <<row[i + 3], row[i + 2], row[i + 1], 255>> \o bgra_row(row, w, x + 1)

\* Mutant: the source alpha is copied.
bgra_rowsAlpha(width, height, stride, src, y) ==
    [k \in 1..(4 * width * height) |->
        LET p == (k - 1) \div 4
            at == (p \div width) * stride + 4 * (p % width)
            c == (k - 1) % 4
        IN IF c = 3 THEN src[at + 4] ELSE src[at + 3 - c]]

RECURSIVE bgra_rows(_, _, _, _, _)
bgra_rows(width, height, stride, src, y) ==
    IF y >= height THEN << >>
    ELSE bgra_row(From(src, y * stride), width, 0) \o bgra_rows(width, height, stride, src, y + 1)

bgra_to_rgba(width, height, stride, src) == bgra_rows(width, height, stride, src, 0)

\* One pixel over sampled bytes, and two rows of two pixels with a padded
\* stride, the last row with or without its padding.
ByteSamples == {0, 10, 20, 30, 255}
BgraBuffers ==
    { [kind |-> "Bgra", width |-> 1, height |-> 1, stride |-> 4, uv_stride |-> 0,
       src |-> <<b, g, r, a>>] :
         b \in ByteSamples, g \in ByteSamples, r \in ByteSamples, a \in {0, 128, 255} }
    \cup
    { [kind |-> "Bgra", width |-> 2, height |-> 2, stride |-> 10, uv_stride |-> 0,
       src |-> [i \in 1..len |-> base + i]] : len \in {18, 20}, base \in {0, 100, 200} }

PixBgraToRgba ==
    /\ fr.pc = "convert"
    /\ fr.kind = "Bgra"
    /\ fr' = [fr EXCEPT !.pc = "converted",
                        !.out = bgra_to_rgba(fr.width, fr.height, fr.stride, fr.src)]
    /\ UNCHANGED notFr

PixInit ==
    /\ video_capture = 0 /\ selected_video = 0 /\ last_error = "none" /\ show_stats = FALSE
    /\ mpc = "idle" /\ mloc = MLocInit /\ nsess = 0
    /\ rx = [s \in Sessions |-> << >>]
    /\ stop = [s \in Sessions |-> FALSE]
    /\ thread = [s \in Sessions |-> "none"]
    /\ stats = [s \in Sessions |-> CaptureStats_new]
    /\ wpc = [s \in Sessions |-> "unborn"]
    /\ wloc = [s \in Sessions |-> WLocInit]
    /\ nbuf = 0 /\ hist = HistInit
    /\ sel = SelOff /\ mj = MjOff /\ rs = RsOff /\ devs = DevsInit
    /\ \E buffer \in YuyvBuffers \cup Nv12Buffers \cup BgraBuffers :
         fr = [pc |-> "convert", kind |-> buffer.kind, width |-> buffer.width,
               height |-> buffer.height, stride |-> buffer.stride,
               uv_stride |-> buffer.uv_stride, src |-> buffer.src, out |-> << >>]

PixNext ==
    \/ PixYuyvToRgba
    \/ PixNv12ToRgba
    \/ PixBgraToRgba

PixSpec == PixInit /\ [][PixNext]_vars

\* ------------------------------------------------------------------- C30
\* pixel p of the picture, row by row, and its four bytes in out
C30_X(p) == p % fr.width
C30_Y(p) == p \div fr.width
C30_Px(p) == SubSeq(fr.out, 4 * p + 1, 4 * p + 4)

\* the luma byte of pixel p
C30_Luma(p) ==
    IF fr.kind = "Yuyv"
      THEN fr.src[C30_Y(p) * fr.stride + 2 * C30_X(p) + 1]
      ELSE fr.src[C30_Y(p) * fr.stride + C30_X(p) + 1]

\* the chroma sample (U, V) of the YUYV pair / the NV12 2x2 block of pixel p
C30_Chroma(p) ==
    IF fr.kind = "Yuyv"
      THEN LET at == C30_Y(p) * fr.stride + 4 * (C30_X(p) \div 2)
           IN <<fr.src[at + 2], fr.src[at + 4]>>
      ELSE LET at == fr.stride * fr.height + (C30_Y(p) \div 2) * fr.uv_stride
                       + 2 * (C30_X(p) \div 2)
           IN <<fr.src[at + 1], fr.src[at + 2]>>

C30_Pixel(p) ==
    LET px == C30_Px(p)
        luma == C30_Luma(p)
        uv == C30_Chroma(p)
    IN /\ px[1] \in 0..255 /\ px[2] \in 0..255 /\ px[3] \in 0..255
       /\ px[4] = 255
       /\ <<px[1], px[2], px[3]>> = yuv_to_rgb(luma, uv[1], uv[2])
       /\ uv = <<128, 128>> =>
            /\ px[1] = px[2] /\ px[2] = px[3]
            /\ luma <= 16 => px[1] = 0
            /\ luma >= 235 => px[1] = 255

\* C30: every pixel of a converted buffer has channels in 0..255 and alpha
\* 255 and is the conversion of its luma with the chroma sample of its YUYV
\* pair or NV12 2x2 block; with neutral chroma 128, 128 it is grey, black for
\* luma <= 16 and white for luma >= 235.
C30_Conversion ==
    (fr.pc = "converted" /\ fr.kind \in {"Yuyv", "Nv12"}) =>
        /\ Len(fr.out) = 4 * fr.width * fr.height
        /\ \A p \in 0..(fr.width * fr.height - 1) : C30_Pixel(p)

\* tests::yuyv_black_white
C30_Witness ==
    /\ fr.pc = "converted"
    /\ fr.kind = "Yuyv"
    /\ fr.src = <<16, 128, 235, 128>>
    /\ fr.out = <<0, 0, 0, 255, 255, 255, 255, 255>>

\* ------------------------------------------------------------------- C31
\* the four source bytes of the pixel at (x, y)
C31_Src(x, y) == SubSeq(fr.src, y * fr.stride + 4 * x + 1, y * fr.stride + 4 * x + 4)

\* C31: bgra_to_rgba returns width x height x 4 bytes; its pixel at (x, y) is
\* the source pixel at y*stride + 4x with bytes 0 and 2 swapped, byte 1 kept
\* and alpha 255, whatever the source alpha and the bytes past the row end.
C31_BgraSwapped ==
    (fr.pc = "converted" /\ fr.kind = "Bgra") =>
        /\ Len(fr.out) = 4 * fr.width * fr.height
        /\ \A x \in 0..(fr.width - 1), y \in 0..(fr.height - 1) :
             SubSeq(fr.out, 4 * (y * fr.width + x) + 1, 4 * (y * fr.width + x) + 4)
               = <<C31_Src(x, y)[3], C31_Src(x, y)[2], C31_Src(x, y)[1], 255>>

\* Two padded rows: the second row starts at byte 10, the padding bytes 9, 10
\* are in no pixel and the source alphas 4, 8, 14, 18 are replaced
C31_Witness ==
    /\ fr.pc = "converted"
    /\ fr.kind = "Bgra"
    /\ fr.width = 2 /\ fr.stride = 10 /\ Len(fr.src) = 20 /\ fr.src[1] = 1
    /\ fr.out = <<3, 2, 1, 255, 7, 6, 5, 255, 13, 12, 11, 255, 17, 16, 15, 255>>

\* --------------------------------- select_format over enumerated sizes
\* the f64 rate in the unit of the candidates of select_format (hundredths)
Hundredths(fps) == IF fps = NoneFps THEN NoFps ELSE (100 * fps[1]) \div fps[2]

\* best_choice_for_fourcc as a function of what the device enumerates: the
\* sizes of the layout in order, and the interval report of the layout's sizes
RECURSIVE best_choice_loop(_, _, _, _, _)
best_choice_loop(fourcc, sizes, report, i, best) ==
    IF i > Len(sizes) THEN best
    ELSE LET d == sizes[i]
             fps == max_fps(report)
         IN best_choice_loop(fourcc, sizes, report, i + 1,
                IF better(best, d[1], d[2], fps)
                  THEN [fourcc |-> fourcc, width |-> d[1], height |-> d[2], fps |-> fps]
                  ELSE best)

best_choice_for_fourcc(fourcc, sizes, report) ==
    LET best == best_choice_loop(fourcc, sizes, report, 1, NoBest) IN
    IF best = NoBest THEN NoChoice
    ELSE [fourcc |-> fourcc, width |-> best.width, height |-> best.height,
          fps |-> Hundredths(best.fps)]

\* What a device enumerates for a layout: no size (or the layout is not
\* listed), one size, or two sizes in either order.
EnumLists ==
    { << >>, <<<<1920, 1080>>>>, <<<<1280, 720>>>>,
      <<<<1920, 1080>>, <<1280, 720>>>>, <<<<1280, 720>>, <<1920, 1080>>>>,
      <<<<960, 960>>>>, <<<<960, 960>>, <<1280, 720>>>> }
EnumReports ==
    { [ok |-> TRUE, list |-> <<Discrete(<<1, 30>>)>>],
      [ok |-> TRUE, list |-> <<Discrete(<<1, 30>>), Discrete(<<1, 60>>)>>] }

\* select_format on a device with these enumerations; enumerated is history
EnumInit ==
    /\ CaptureInit /\ mj = MjOff /\ rs = RsOff
    /\ \E sizes \in [Fourccs -> EnumLists], report \in [Fourccs -> EnumReports], cap \in CapSet :
         /\ \A f \in Fourccs : sizes[f] = << >> => report[f] = [ok |-> TRUE, list |-> <<Discrete(<<1, 30>>)>>]
         /\ sel = [ pc |-> "collect",
                    offered |-> [f \in Fourccs |-> best_choice_for_fourcc(f, sizes[f], report[f])],
                    max_size |-> cap, choices |-> << >>, tried |-> 0, answers |-> << >>,
                    current |-> [fourcc |-> "none", width |-> 0, height |-> 0],
                    ret |-> NoRet, prev |-> NoPrev, enumerated |-> sizes ]

EnumSpec == EnumInit /\ [][SelNext]_vars

\* ------------------------------------------------------------------- C32
\* a cap was given and the device accepted the mode it was asked for first
C32_Accepted ==
    /\ sel.pc = "done"
    /\ sel.max_size # <<0, 0>>
    /\ sel.ret.kind = "set"
    /\ sel.answers = <<TRUE>>
    /\ <<sel.ret.width, sel.ret.height>> = <<sel.choices[1].width, sel.choices[1].height>>

C32_Fits(size) == size[1] <= sel.max_size[1] /\ size[2] <= sel.max_size[2]

\* the device offers a mode that fits the cap
C32_OffersFitting ==
    \E f \in Fourccs : \E k \in 1..Len(sel.enumerated[f]) : C32_Fits(sel.enumerated[f][k])

\* the candidates: the kept size of each layout; those of the aspect ratio of
\* the largest one
C32_Candidates == {sel.offered[f] : f \in Fourccs} \ {NoChoice}
C32_Largest ==
    MaxByArea([i \in 1..3 |-> sel.offered[FourccOrder[i]]])
C32_SameAspect == {c \in C32_Candidates : SameAspect(c, C32_Largest)}

\* C32 as stated: with a cap, a device that offers a mode fitting the cap and
\* accepts the mode it is asked for gets a mode that fits the cap.
C32_FittingModeReturned ==
    (C32_Accepted /\ C32_OffersFitting) => C32_Fits(<<sel.ret.width, sel.ret.height>>)

\* C32, amended: with a cap, if one of the candidates (the largest size of a
\* layout) with the aspect ratio of the largest candidate fits the cap and the
\* device accepts the mode it is asked for, the mode returned fits the cap.
C32_FittingCandidateReturned ==
    (C32_Accepted /\ \E c \in C32_SameAspect : C32_Fits(<<c.width, c.height>>))
        => C32_Fits(<<sel.ret.width, sel.ret.height>>)

\* NV12 in 1920x1080 only, MJPG in 1280x720 only, cap 1280x720: MJPG is set
C32_Witness ==
    /\ C32_Accepted
    /\ sel.max_size = <<1280, 720>>
    /\ sel.enumerated["NV12"] = <<<<1920, 1080>>>>
    /\ sel.enumerated["MJPG"] = <<<<1280, 720>>>>
    /\ sel.ret.fourcc = "MJPG" /\ sel.ret.width = 1280 /\ sel.ret.height = 720

\* ------------------------------------------------------------------- C33
C33_Reverse(o) == CASE o = "Less" -> "Greater" [] o = "Greater" -> "Less" [] OTHER -> "Equal"
C33_Geq(a, b) == compare_choice(a, b) # "Less"

\* the candidates select_format compares: the kept choice of each layout
C33_Candidates == {sel.offered[f] : f \in Fourccs} \ {NoChoice}

\* compare(a, b) is the reverse of compare(b, a)
C33_Antisymmetric ==
    \A a \in C33_Candidates, b \in C33_Candidates :
        compare_choice(a, b) = C33_Reverse(compare_choice(b, a))

\* C33: on the candidates of a run of select_format, compare_choice is a
\* consistent ordering: compare(a, b) is the reverse of compare(b, a), and
\* a >= b with b >= c implies a >= c.
C33_ConsistentOrdering ==
    sel.pc = "sort" =>
        /\ C33_Antisymmetric
        /\ \A a \in C33_Candidates, b \in C33_Candidates, c \in C33_Candidates :
             (C33_Geq(a, b) /\ C33_Geq(b, c)) => C33_Geq(a, c)

\* ------------------------------------------------------------------- C34
\* C34: the capture thread of a started session exits only after the stop
\* flag of the session was set, so the session the application holds has a
\* live thread.
C34_ExitsOnlyWhenStopped ==
    \A s \in Sessions :
        /\ wpc[s] = "exited" => stop[s]
        /\ (video_capture = s /\ mpc = "idle") => wpc[s] # "exited"

\* ------------------------------------------------------------------- C35
\* the consumer receives a frame of session s in this step
C35_Receives(s) ==
    /\ mpc = "tlf" /\ video_capture = s
    /\ hist'.tk.got # hist.tk.got

\* C35: every frame the consumer receives was built from a captured buffer
\* later than the buffer of the frame it received before, so the frames
\* received are a subsequence of the captured buffers without repetition.
C35_ReceivedInCaptureOrder ==
    [][\A s \in Sessions :
         C35_Receives(s) =>
            /\ Head(rx[s]).seq > hist.lastgot[s]
            /\ Head(rx[s]).seq \in 1..hist.ncap[s]
            /\ hist'.lastgot[s] = Head(rx[s]).seq]_vars

\* The consumer has received the frames of buffers 1 and 3 of a session;
\* buffer 2 was discarded
C35_Witness ==
    \E s \in Sessions :
        /\ hist.lastgot[s] = 3
        /\ hist.tk.sess = s /\ hist.tk.got = <<1, 3>>

\* ------------------------------------------------------------------- C36
\* the thread of s is between two iterations, stats are enabled and the reset
\* that follows the enabling is done
C36_AtBoundaryEnabled(s) ==
    /\ wpc[s] \in {"head", "read"}
    /\ stats[s].enabled
    /\ ~(video_capture = s /\ mpc = "ase_reset")

C36_Counted(s) ==
    /\ stats[s].frames = hist.nsent[s]
    /\ stats[s].drops = hist.ndisc[s]

\* C36 as stated: with stats enabled, at every iteration boundary frames is
\* the number of frames put into the channel and drops the number of buffers
\* discarded since the last reset.
C36_CountedSinceReset ==
    \A s \in Sessions : C36_AtBoundaryEnabled(s) => C36_Counted(s)

\* C36, amended: when every iteration of the session read the flag as enabled
\* and no reset erased a count (stats were enabled before the thread's first
\* iteration and not toggled since), at every iteration boundary frames is the
\* number of frames put into the channel and drops the number of buffers
\* discarded.
C36_CountedWhenEveryIterationEnabled ==
    \A s \in Sessions : (C36_AtBoundaryEnabled(s) /\ hist.clean[s]) => C36_Counted(s)

\* Three buffers with stats on throughout: two frames sent, one buffer
\* discarded for an occupied slot
C36_Witness ==
    \E s \in Sessions :
        /\ C36_AtBoundaryEnabled(s) /\ hist.clean[s]
        /\ hist.ncap[s] = 3
        /\ stats[s].frames = 2 /\ hist.nsent[s] = 2
        /\ stats[s].drops = 1 /\ hist.ndisc[s] = 1

\* ------------------------------------------------------------------- C37
\* the textures of the bind group that render sets for video_format
C37_Bound ==
    IF rs.video_format = "Nv12"
      THEN <<rs.nv12_y_texture, rs.nv12_uv_texture>>
      ELSE <<rs.video_texture>>

\* what a frame of that format and size is written to
C37_Expected ==
    CASE rs.video_format = "Rgba" -> <<[format |-> "Rgba8Unorm", size |-> rs.video_size]>>
      [] rs.video_format = "Yuyv" -> <<[format |-> "Rg8Unorm", size |-> rs.video_size]>>
      [] OTHER -> <<[format |-> "R8Unorm", size |-> rs.video_size],
                    [format |-> "Rg8Unorm",
                     size |-> <<(rs.video_size[1] + 1) \div 2, (rs.video_size[2] + 1) \div 2>>]>>

\* C37: after any sequence of update_frame calls the textures render binds for
\* video_format have the size of the last frame (the chroma texture half of
\* it, rounded up, for Nv12) and the texel format of its pixel format.
C37_BoundTexturesMatch ==
    rs.pc = "tex" => C37_Bound = C37_Expected

\* Nv12 3x3, then Rgba 3x3, then Nv12 4x2: the Nv12 textures, left at 3x3 by
\* the Rgba frame, were created anew
C37_Witness ==
    /\ rs.pc = "tex"
    /\ rs.video_format = "Nv12" /\ rs.video_size = <<4, 2>>
    /\ rs.prev.uploaded /\ rs.prev.format = "Rgba" /\ rs.prev.size = <<3, 3>>
    /\ rs.video_texture = [format |-> "Rgba8Unorm", size |-> <<3, 3>>]
    /\ rs.nv12_uv_texture = [format |-> "Rg8Unorm", size |-> <<2, 1>>]

\* ------------------------------------------------------------------- C39
\* C39: whenever the capture thread is at try_send the slot is empty, and the
\* thread is never in the branch that drains the stale frame and sends again.
C39_SendFindsSlotEmpty ==
    \A s \in Sessions :
        /\ wpc[s] = "send" => ChanIsEmpty(rx[s])
        /\ wpc[s] \notin {"drain", "drop_late", "resend"}

\* The thread is at try_send with its third buffer while the consumer is in
\* its receive loop and has emptied the slot
C39_Witness ==
    \E s \in Sessions :
        /\ wpc[s] = "send"
        /\ hist.ncap[s] = 3
        /\ mpc = "tlf" /\ video_capture = s
        /\ hist.tk.got # << >>
        /\ ChanIsEmpty(rx[s])

\* ------------------------------------------------------------------- C38
\* take_latest_frame next to a capture thread whose device never runs out of
\* buffers.  Session 1 is open, stats are off, and the histories of Spec,
\* which grow with every buffer, are replaced by two counters of the call
\* under way that stop counting at a ceiling.
MaxCapt == 2        \* buffers counted in one call of take_latest_frame
MaxRecv == MaxCapt + 3

Counted(n, max) == IF n < max THEN n + 1 ELSE n

DrainInit ==
    /\ video_capture = 1
    /\ selected_video = 1
    /\ last_error = "none"
    /\ show_stats = FALSE
    /\ mpc = "idle"
    /\ mloc = MLocInit
    /\ nsess = 1
    /\ rx = [s \in Sessions |-> << >>]
    /\ stop = [s \in Sessions |-> FALSE]
    /\ thread = [s \in Sessions |-> IF s = 1 THEN "some" ELSE "none"]
    /\ stats = [s \in Sessions |-> CaptureStats_new]
    /\ wpc = [s \in Sessions |-> IF s = 1 THEN "init" ELSE "unborn"]
    /\ wloc = [s \in Sessions |-> WLocInit]
    /\ nbuf = 0
    /\ hist = [recv |-> 0, capt |-> 0]
    /\ devs = DevsInit
    /\ fr = FrOff
    /\ sel = SelOff /\ mj = MjOff /\ rs = RsOff

\* let cap = self.video_capture.as_ref()?; let mut latest = None;
DrainRedraw ==
    /\ mpc = "idle"
    /\ video_capture # 0
    /\ mpc' = "tlf"
    /\ hist' = [recv |-> 0, capt |-> 0]
    /\ UNCHANGED <<video_capture, selected_video, last_error, show_stats, mloc,
                   sessVars, workerVars, nbuf, sel, mj, rs, devs, fr>>

\* while let Ok(frame) = cap.rx.try_recv() { latest = Some(frame); } .. latest
DrainTake ==
    /\ mpc = "tlf"
    /\ LET c == video_capture IN
       IF ~ChanIsEmpty(rx[c])
         THEN /\ rx' = [rx EXCEPT ![c] = Tail(@)]
              /\ mloc' = [mloc EXCEPT !.latest = Latest(@, Head(rx[c]))]
              /\ hist' = [hist EXCEPT !.recv = Counted(@, MaxRecv)]
              /\ mpc' = mpc
         ELSE /\ rx' = rx
              /\ mloc' = MLocInit
              /\ mpc' = "idle"
              /\ hist' = hist
    /\ UNCHANGED <<video_capture, selected_video, last_error, show_stats, nsess,
                   stop, thread, stats, workerVars, nbuf, sel, mj, rs, devs, fr>>

\* while !stop.load(Relaxed) { let stats_on = stats.enabled(); ...
DrainLoopHead(s) ==
    /\ wpc[s] = "head"
    /\ IF stop[s]
         THEN Goto(s, "exited")
         ELSE /\ wpc' = [wpc EXCEPT ![s] = "read"]
              /\ wloc' = [wloc EXCEPT ![s].stats_on = stats[s].enabled]
    /\ UNCHANGED <<appVars, sessVars, nbuf, hist, sel, mj, rs, devs, fr>>

\* stream.next() / appsink.pull_sample() returns a buffer, as often as the
\* loop asks for one.
DrainRead(s) ==
    /\ wpc[s] = "read"
    /\ \E ok \in BOOLEAN : wloc' = [wloc EXCEPT ![s].buf = [seq |-> 1, ok |-> ok]]
    /\ wpc' = [wpc EXCEPT ![s] = "is_empty"]
    /\ hist' = IF mpc = "tlf" /\ video_capture = s
                 THEN [hist EXCEPT !.capt = Counted(@, MaxCapt)]
                 ELSE hist
    /\ UNCHANGED <<appVars, sessVars, nbuf, sel, mj, rs, devs, fr>>

\* if !drop_rx.is_empty() { if stats_on { on_drop } continue; }
DrainIsEmpty(s) ==
    /\ wpc[s] = "is_empty"
    /\ Goto(s, IF ~ChanIsEmpty(rx[s])
                 THEN (IF wloc[s].stats_on THEN "drop_early" ELSE "head")
                 ELSE "build")
    /\ UNCHANGED <<appVars, sessVars, nbuf, hist, sel, mj, rs, devs, fr>>

\* Mutant: the frame is sent again after a send that succeeded.
DrainSendAgain(s) ==
    /\ wpc[s] \in {"send", "drain", "resend"}
    /\ CASE wpc[s] = "send" ->
              IF ~ChanFull(rx[s])
                THEN /\ rx' = [rx EXCEPT ![s] = Append(@, wloc[s].frame)]
                     /\ Goto(s, "resend")
                ELSE /\ Goto(s, "drain")
                     /\ rx' = rx
         [] wpc[s] = "drain" ->
              /\ rx' = [rx EXCEPT ![s] = IF ChanIsEmpty(@) THEN @ ELSE Tail(@)]
              /\ Goto(s, "resend")
         [] OTHER ->
              /\ rx' = [rx EXCEPT ![s] = IF ChanFull(@) THEN @ ELSE Append(@, wloc[s].frame)]
              /\ Goto(s, "head")
    /\ UNCHANGED <<appVars, nsess, stop, thread, stats, nbuf, hist, sel, mj, rs, devs, fr>>

\* if let Err(err) = tx.try_send(frame) { drop_rx.try_recv(); tx.try_send(frame) }
\* (stats are off: the on_drop between the two is not taken)
DrainSend(s) ==
    /\ wpc[s] \in {"send", "drain", "resend"}
    /\ CASE wpc[s] = "send" ->
              IF ~ChanFull(rx[s])
                THEN /\ rx' = [rx EXCEPT ![s] = Append(@, wloc[s].frame)]
                     /\ Goto(s, "head")
                ELSE /\ Goto(s, "drain")
                     /\ rx' = rx
         [] wpc[s] = "drain" ->
              /\ rx' = [rx EXCEPT ![s] = IF ChanIsEmpty(@) THEN @ ELSE Tail(@)]
              /\ Goto(s, "resend")
         [] OTHER ->
              /\ rx' = [rx EXCEPT ![s] = IF ChanFull(@) THEN @ ELSE Append(@, wloc[s].frame)]
              /\ Goto(s, "head")
    /\ UNCHANGED <<appVars, nsess, stop, thread, stats, nbuf, hist, sel, mj, rs, devs, fr>>

DrainWorker(s) ==
    \/ WorkerInit(s)
    \/ DrainLoopHead(s)
    \/ DrainRead(s)
    \/ WorkerReadErr(s)
    \/ DrainIsEmpty(s)
    \/ WorkerBuild(s)
    \/ DrainSend(s)

DrainNext == DrainRedraw \/ DrainTake \/ \E s \in Sessions : DrainWorker(s)

\* The application's thread keeps running: a call under way takes its next step.
DrainSpec == DrainInit /\ [][DrainNext]_vars /\ WF_vars(DrainTake)

\* C38 (as stated): a call of take_latest_frame that has begun returns,
\* whatever the capture thread does meanwhile.
C38_CallReturns == (mpc = "tlf") ~> (mpc = "idle")

\* C38 (amended): a call receives at most two frames more than the number of
\* buffers the capture thread read while the call was under way.
C38_ReceivesBounded ==
    (mpc = "tlf" /\ hist.capt < MaxCapt) => hist.recv <= hist.capt + 2

\* a call that has received three frames while the thread read one buffer
C38_Witness ==
    /\ mpc = "tlf"
    /\ hist.capt = 1
    /\ hist.recv = 3

====
